---- MODULE Spec2Model ----
(***************************************************************************)
(* The scenario fixture of dnf-extra-tests: features/environment.py (the   *)
(* before_scenario / after_scenario hooks, TempResourceCopy and            *)
(* TempRepoConfig) and the steps of features/steps/steps.py that touch the *)
(* fixture's files.  The file system is modelled by what the code can      *)
(* observe of it: which directories exist, the content of the live         *)
(* configuration file, the backup files, the resource copies and the       *)
(* .repo files.  A Python function is an operator from a "world" record    *)
(* (context fields, file system, exception raised) to the world after it.  *)
(***************************************************************************)
EXTENDS Integers, Sequences, FiniteSets, TLC

VARIABLES
    backupfn,           \* context.backupfn
    temp_resource,      \* context.temp_resource
    temp_repo,          \* context.temp_repo
    config_option,      \* context.config_option
    releasever_option,  \* context.releasever_option
    installroot_option, \* context.installroot_option
    dirs,               \* the directories that exist
    config,             \* content of the live configuration file, or Absent
    backups,            \* backup file name -> content, for the backups on disk
    resfiles,           \* the resource copies on disk, as <<dirname, basename>>
    repofiles,          \* the .repo files on disk (names in the repos dir.)
    xfiles,             \* configuration files written at explicitly named paths
    pc,                 \* where the scenario runner is
    last,               \* what the last hook or step did
    origConfig,         \* history: the live configuration when the scenario began
    wiped,              \* history: a step of this scenario deleted the directory
                        \* of the live configuration, and the backup with it
    created,            \* history: what the harness created in this scenario
                        \* and has not deleted
    clientCopy,         \* a TempResourceCopy used directly by a client
    clientRepo,         \* a TempRepoConfig used directly by a client
    apilog,             \* the calls the client made on the two handles
    fn                  \* a function called on its own: its arguments and result

ctxvars == <<backupfn, temp_resource, temp_repo, config_option,
             releasever_option, installroot_option>>
fsvars == <<dirs, config, backups, resfiles, repofiles, xfiles>>
histvars == <<pc, last, origConfig, wiped, created>>
apivars == <<clientCopy, clientRepo, apilog>>
vars == <<ctxvars, fsvars, histvars, apivars, fn>>

----------------------------------------------------------------------------
(* Values *)

None == "None"          \* None, for a field that otherwise holds a string
Unset == "Unset"        \* an attribute the context does not have yet
NoObj == << >>          \* None, for a field that otherwise holds <<object>>
NoPath == << >>         \* None, for a field that otherwise holds <<dir, name>>
NoFile == << >>         \* a file that does not exist; <<content>> when it does

REPOID == "dnf-extra-tests"

\* Directories the model tracks.
ConfDir == "confdir"    \* os.path.dirname(context.configfn)
ReposDir == "reposdir"  \* base.conf.reposdir[0]
ResDir == "resdir"      \* the directory named by a metalink/mirrorlist/gpgkey URL
RootDir == "root"       \* the install root named by --installroot
XDir == "xdir"          \* the directory of an explicitly named configuration file
Dirs == {ConfDir, ReposDir, ResDir, RootDir, XDir}

\* Bounds.
MaxBackupNames == 2     \* names tempfile can draw for a backup file
MaxRepoNames == 2       \* names tempfile can draw for a .repo file
MaxConfigLen == 3       \* lines the live configuration file can hold
MaxRows == 1            \* rows of a step's table
MaxCalls == 4           \* calls a client makes on the two handles
MaxDepth == 3           \* components of a path given to makedirs
MaxExit == 2            \* the largest exit code of the executable
MaxCliRows == 2         \* rows of the table of a command-line step called on its own
MaxText == 3            \* pieces of the text a repository query prints
MaxPkgs == 2            \* packages of a metadata directory

NameTable == <<"tmp1", "tmp2", "tmp3", "tmp4">>
BackupNames == {NameTable[i] : i \in 1..MaxBackupNames}
RepoNames == {NameTable[i] : i \in 1..MaxRepoNames}

\* The value of fn while no function has been called on its own.
NoCall == [op |-> "none", arg |-> << >>, res |-> << >>]

\* Lines of a configuration file.
OrigLine == <<"orig">>
MainLine == <<"[main]">>

Truthy(v) == v # None /\ v # ""

Raise(w, e) == [w EXCEPT !.exc = e]

\* Exceptions are named by class and, for the file system's, by errno:
\* "OSError:ENOENT" is the OSError of a path that does not exist.

\* The next statement's result r, unless an exception already propagates in w.
Bind(w, r) == IF w.exc # None THEN w ELSE r

\* The end of a finally clause, or of an __exit__ that returns False,
\* entered with exception e pending (None when the block ended normally):
\* an exception of the clause replaces e, else e propagates.
Reraise(e, a) == IF a.exc # None THEN a ELSE [a EXCEPT !.exc = e]

Restrict(f, S) == IF S = {} THEN << >> ELSE [x \in S |-> f[x]]

SeqsUpTo(S, n) == UNION {[1..k -> S] : k \in 0..n}

----------------------------------------------------------------------------
(* File-system primitives *)

\* shutil.rmtree(d): OSError when d does not exist, else the directory and
\* all below it are deleted.
rmtree(w, d) ==
    IF d \notin w.dirs THEN Raise(w, "OSError:ENOENT")
    ELSE [w EXCEPT
            !.dirs = @ \ {d},
            !.config = IF d = ConfDir THEN NoFile ELSE @,
            !.backups = IF d = ConfDir THEN << >> ELSE @,
            !.resfiles = {f \in @ : f[1] # d},
            !.repofiles = {f \in @ : f[1] # d},
            !.xfiles = {f \in @ : f[1] # d}]

\* A tree of directories and files: a path is the sequence of its
\* components, the root << >> is a directory.
Parent(p) == SubSeq(p, 1, Len(p) - 1)
Prefixes(p) == {SubSeq(p, 1, k) : k \in 1..Len(p)}
IsDir(t, p) == p = << >> \/ p \in t.dirs
PathExists(t, p) == IsDir(t, p) \/ p \in t.files

\* os.mkdir(p); denied is whether the directory it is made in refuses it.
os_mkdir(t, p, denied) ==
    IF PathExists(t, p) THEN [t |-> t, exc |-> "OSError:EEXIST"]
    ELSE IF ~PathExists(t, Parent(p)) THEN [t |-> t, exc |-> "OSError:ENOENT"]
    ELSE IF ~IsDir(t, Parent(p)) THEN [t |-> t, exc |-> "OSError:ENOTDIR"]
    ELSE IF denied THEN [t |-> t, exc |-> "OSError:EACCES"]
    ELSE [t |-> [t EXCEPT !.dirs = @ \cup {p}], exc |-> None]

\* The end of os.makedirs: h is the outcome of making the head.
mkdir_after_head(h, name, denied) ==
    IF h.exc \notin {None, "OSError:EEXIST"} THEN h
    ELSE os_mkdir(h.t, name, denied)

RECURSIVE os_makedirs(_, _, _)
\* os.makedirs(name): the missing head is made first (an EEXIST of that is
\* ignored), then os.mkdir(name).
os_makedirs(t, name, denied) ==
    mkdir_after_head(IF Parent(name) # << >> /\ ~PathExists(t, Parent(name))
                       THEN os_makedirs(t, Parent(name), denied)
                       ELSE [t |-> t, exc |-> None],
                     name, denied)

\* The except clause of makedirs: r is the outcome of os.makedirs.
reraise_unless_isdir(r, name, exist_ok) ==
    IF r.exc = None THEN r
    ELSE IF ~exist_ok \/ r.exc # "OSError:EEXIST" \/ ~IsDir(r.t, name) THEN r
    ELSE [t |-> r.t, exc |-> None]

\* makedirs as it would be without the os.path.isdir test.
makedirs_fs_noisdir(t, name, exist_ok, denied) ==
    LET r == os_makedirs(t, name, denied)
    IN  IF r.exc = None THEN r
        ELSE IF ~exist_ok \/ r.exc # "OSError:EEXIST" THEN r
        ELSE [t |-> r.t, exc |-> None]

\* makedirs(name, exist_ok) on a tree: the OSError of os.makedirs is
\* re-raised unless exist_ok is set, it is EEXIST and name is a directory.
makedirs_fs(t, name, exist_ok, denied) ==
    reraise_unless_isdir(os_makedirs(t, name, denied), name, exist_ok)

\* The world after makedirs(name) has ended with r on the tree of w.
makedirs_world(w, name, r) ==
    IF r.exc # None THEN Raise(w, r.exc)
    ELSE IF name \in w.dirs THEN w
    ELSE [w EXCEPT !.dirs = {p[1] : p \in r.t.dirs},
                   !.created = @ \cup {<<name, "">>}]

\* makedirs(name, exist_ok) in the world of the fixture, whose directories
\* are all children of the root.
makedirs(w, name, exist_ok) ==
    makedirs_world(w, name,
                   makedirs_fs([dirs |-> {<<d>> : d \in w.dirs}, files |-> {}],
                               <<name>>, exist_ok, FALSE))

\* Whether the file <<dir, name>>, or the directory <<dir, "">>, exists.
Exists(w, p) ==
    IF p[2] = "" THEN p[1] \in w.dirs
    ELSE \/ p \in w.resfiles \cup w.repofiles \cup w.xfiles
         \/ p[1] = ConfDir /\ p[2] \in DOMAIN w.backups

----------------------------------------------------------------------------
(* environment.py: run_dnf *)

Insert1(cmdline, x) == <<Head(cmdline)>> \o <<x>> \o Tail(cmdline)

\* "if option: cmdline.insert(1, ...)".
InsertIf(option, cmdline, x) == IF option THEN Insert1(cmdline, x) ELSE cmdline

\* The argument vector as it would be if the options were appended.
Cmdline_append(args, configfn, root, releasever, quiet, assumeyes, disablerepo, enablerepo) ==
    LET c0 == <<"dnf">> \o args
        c1 == IF Truthy(releasever) THEN Append(c0, <<"--releasever", releasever>>) ELSE c0
        c2 == IF quiet THEN Append(c1, <<"--quiet">>) ELSE c1
        c3 == IF Truthy(root) THEN Append(c2, <<"--installroot", root>>) ELSE c2
        c4 == IF Truthy(enablerepo) THEN Append(c3, <<"--enablerepo", enablerepo>>) ELSE c3
        c5 == IF Truthy(disablerepo) THEN Append(c4, <<"--disablerepo", disablerepo>>) ELSE c4
        c6 == IF Truthy(configfn) THEN Append(c5, <<"--config", configfn>>) ELSE c5
    IN  IF assumeyes THEN Append(c6, <<"--assumeyes">>) ELSE c6

\* The argument vector of run_dnf: each option is inserted at index 1.
Cmdline(args, configfn, root, releasever, quiet, assumeyes, disablerepo, enablerepo) ==
    LET c0 == <<"dnf">> \o args
        c1 == InsertIf(Truthy(releasever), c0, <<"--releasever", releasever>>)
        c2 == InsertIf(quiet, c1, <<"--quiet">>)
        c3 == InsertIf(Truthy(root), c2, <<"--installroot", root>>)
        c4 == InsertIf(Truthy(enablerepo), c3, <<"--enablerepo", enablerepo>>)
        c5 == InsertIf(Truthy(disablerepo), c4, <<"--disablerepo", disablerepo>>)
        c6 == InsertIf(Truthy(configfn), c5, <<"--config", configfn>>)
    IN  InsertIf(assumeyes, c6, <<"--assumeyes">>)

\* What the executable can do: proc.started is whether it could be located
\* and started, proc.code its exit code and proc.out what it printed.
Procs ==
    {[started |-> FALSE, code |-> 0, out |-> << >>],
     [started |-> TRUE, code |-> 0, out |-> << >>],
     [started |-> TRUE, code |-> 1, out |-> << >>]}

\* subprocess.check_output as it would be if it did not look at the exit code.
check_output_nocheck(proc) ==
    IF ~proc.started
      THEN [exc |-> "OSError:exec", returncode |-> NoObj, output |-> << >>]
    ELSE [exc |-> None, returncode |-> NoObj, output |-> proc.out]

\* subprocess.check_output: OSError when the executable cannot be started,
\* CalledProcessError with the exit code when that is not 0, else the output.
check_output(proc) ==
    IF ~proc.started
      THEN [exc |-> "OSError:exec", returncode |-> NoObj, output |-> << >>]
    ELSE IF proc.code # 0
      THEN [exc |-> "CalledProcessError", returncode |-> <<proc.code>>,
            output |-> proc.out]
    ELSE [exc |-> None, returncode |-> NoObj, output |-> proc.out]

ProcResults == {check_output(proc) : proc \in Procs}

\* The call of subprocess.check_output(cmdline), logged.
Called(w, cmdline) ==
    [w EXCEPT !.cmds = Append(@, cmdline), !.trace = Append(@, <<"run", cmdline>>)]

\* Its end: the output is returned, or the exception of res propagates.
Returned(c, res) ==
    IF res.exc = None THEN [c EXCEPT !.ret = <<res.output>>]
    ELSE [Raise(c, res.exc) EXCEPT !.returncode = res.returncode]

\* run_dnf: the command line is handed to subprocess.check_output (logged in
\* w.cmds and, in order with the os.remove calls, in w.trace); res is what
\* check_output makes of it, w.ret the value returned.
run_dnf(w, args, configfn, root, releasever, quiet, assumeyes, disablerepo, enablerepo, res) ==
    Returned(Called(w, Cmdline(args, configfn, root, releasever, quiet, assumeyes,
                               disablerepo, enablerepo)), res)

run_dnf_clean_metadata(w, configfn, root, releasever, quiet, assumeyes, disablerepo, enablerepo, res) ==
    run_dnf(w, <<<<"clean">>, <<"metadata">>>>, configfn, root, releasever,
            quiet, assumeyes, disablerepo, enablerepo, res)

----------------------------------------------------------------------------
(* environment.py: TempResourceCopy.  The object a method is called on is  *)
(* w.self; w.tried logs the os.remove calls of the handles, w.removed the  *)
(* ones that succeeded.                                                    *)

TempResourceCopy(basename, dirname) ==
    [basename |-> basename, dirname |-> dirname, _filename |-> NoPath]

\* The end of create(): w1 is the world after makedirs; the resource is
\* copied to filename, which is recorded.
copy2(w1, filename) ==
    IF w1.exc # None THEN w1
    ELSE [w1 EXCEPT
            !.created = @ \cup {filename},
            !.resfiles = @ \cup {filename},
            !.self._filename = filename]

\* create(): makedirs(dirname, exist_ok=True), copy2(resource, filename),
\* then self._filename = filename.
TempResourceCopy_create(w) ==
    copy2(makedirs(w, w.self.dirname, TRUE), <<w.self.dirname, w.self.basename>>)

\* remove(): ValueError when the copy was not created, else os.remove, which
\* raises OSError when the file is gone.  _filename is left as it is.
TempResourceCopy_remove(w) ==
    IF w.self._filename = NoPath THEN Raise(w, "ValueError")
    ELSE LET a == [w EXCEPT !.tried = Append(@, w.self._filename),
                            !.trace = Append(@, <<"os.remove", w.self._filename>>)]
         IN  IF w.self._filename \notin w.resfiles
               THEN Raise(a, "OSError:ENOENT")
             ELSE [a EXCEPT !.resfiles = @ \ {w.self._filename},
                            !.removed = Append(@, w.self._filename)]

----------------------------------------------------------------------------
(* environment.py: TempRepoConfig *)

TempRepoConfig(baseurl, metalink, mirrorlist, gpgcheck, gpgkey, dirname) ==
    [baseurl |-> baseurl, metalink |-> metalink, mirrorlist |-> mirrorlist,
     gpgcheck |-> gpgcheck, gpgkey |-> gpgkey, dirname |-> dirname,
     _filename |-> NoPath]

\* The directory add() writes in: self.dirname or the default one.
configdn(self) == IF Truthy(self.dirname) THEN self.dirname ELSE ReposDir

\* The end of add(): w1 is the world after makedirs; the .repo file is
\* written and recorded.
write_repo(w1, filename) ==
    IF w1.exc # None THEN w1
    ELSE [w1 EXCEPT !.repofiles = @ \cup {filename},
                    !.created = @ \cup {filename},
                    !.self._filename = filename]

\* add(): makedirs(configdn, exist_ok=True), then a uniquely named .repo
\* file (name) is written in configdn and recorded.
TempRepoConfig_add(w, name) ==
    write_repo(makedirs(w, configdn(w.self), TRUE), <<configdn(w.self), name>>)

\* remove() as it would be without try/finally: a failing command leaves the
\* file and the handle as they are.
TempRepoConfig_remove_nofinally(w, res) ==
    IF w.self._filename = NoPath THEN Raise(w, "ValueError")
    ELSE LET c == run_dnf_clean_metadata(w, None, None, None, TRUE, FALSE,
                                         "*", REPOID, res)
             a == [c EXCEPT !.tried = Append(@, w.self._filename),
                            !.trace = Append(@, <<"os.remove", w.self._filename>>)]
         IN  IF c.exc # None THEN c
             ELSE IF w.self._filename \notin c.repofiles
               THEN Raise(a, "OSError:ENOENT")
             ELSE [a EXCEPT !.repofiles = @ \ {w.self._filename},
                            !.removed = Append(@, w.self._filename),
                            !.self._filename = NoPath]

\* remove() as it would be if the finally clause did not reset _filename.
TempRepoConfig_remove_noreset(w, res) ==
    IF w.self._filename = NoPath THEN Raise(w, "ValueError")
    ELSE LET c == run_dnf_clean_metadata(w, None, None, None, TRUE, FALSE,
                                         "*", REPOID, res)
             a == [c EXCEPT !.tried = Append(@, w.self._filename),
                            !.trace = Append(@, <<"os.remove", w.self._filename>>)]
         IN  IF w.self._filename \notin c.repofiles
               THEN Raise(a, "OSError:ENOENT")
             ELSE [a EXCEPT !.repofiles = @ \ {w.self._filename},
                            !.removed = Append(@, w.self._filename)]

\* remove(): ValueError when the repository is not present; else the
\* clean-metadata command and, in the finally clause, os.remove and the
\* reset of _filename.  An exception of os.remove replaces the command's
\* and skips the reset.
TempRepoConfig_remove(w, res) ==
    IF w.self._filename = NoPath THEN Raise(w, "ValueError")
    ELSE LET c == run_dnf_clean_metadata(w, None, None, None, TRUE, FALSE,
                                         "*", REPOID, res)
             a == [c EXCEPT !.tried = Append(@, w.self._filename),
                            !.trace = Append(@, <<"os.remove", w.self._filename>>)]
         IN  IF w.self._filename \notin c.repofiles
               THEN Raise(a, "OSError:ENOENT")
             ELSE [a EXCEPT !.repofiles = @ \ {w.self._filename},
                            !.removed = Append(@, w.self._filename),
                            !.self._filename = NoPath]

----------------------------------------------------------------------------
(* environment.py: the two handles as context managers.  w.ctxlog is the   *)
(* history of a with statement: the __enter__ and __exit__ calls and how   *)
(* the block ended.                                                        *)

\* shutil.copy2 fails in world w (the destination cannot be written).
copy2_fails(w) == Bind(w, Raise(w, "IOError:EACCES"))

\* TempResourceCopy.__enter__: create(); copied is whether shutil.copy2
\* succeeds.
TempResourceCopy_enter(w, copied) ==
    LET l == [w EXCEPT !.ctxlog = Append(@, <<"__enter__", w.self.basename>>)]
    IN  IF copied THEN TempResourceCopy_create(l)
        ELSE copy2_fails(makedirs(l, l.self.dirname, TRUE))

\* TempResourceCopy.__exit__: remove().
TempResourceCopy_exit(w) ==
    TempResourceCopy_remove(
        [w EXCEPT !.ctxlog = Append(@, <<"__exit__", w.self.basename>>)])

\* TempRepoConfig.__enter__: add().
TempRepoConfig_enter(w, name) ==
    TempRepoConfig_add(
        [w EXCEPT !.ctxlog = Append(@, <<"__enter__", REPOID>>)], name)

\* TempRepoConfig.__exit__: remove().
TempRepoConfig_exit(w, res) ==
    TempRepoConfig_remove(
        [w EXCEPT !.ctxlog = Append(@, <<"__exit__", REPOID>>)], res)

\* The end of the block of a with statement, noted in the history.
BlockEnd(b) == [b EXCEPT !.ctxlog = Append(@, <<"block", b.exc>>)]

\* The with statement as it would be if __exit__ were called only when the
\* block ends normally.
with_copy_exit_normal(b, self) ==
    IF b.exc # None THEN b
    ELSE TempResourceCopy_exit([b EXCEPT !.self = self])

\* Leaving the block of "with TempResourceCopy(...)" in world b: __exit__ is
\* called on the manager self, and as it returns False the exception of the
\* block propagates, unless __exit__ raises one itself.
with_copy_exit(b, self) ==
    Reraise(b.exc, TempResourceCopy_exit([b EXCEPT !.exc = None, !.self = self]))

\* Leaving the block of "with TempRepoConfig(...)".
with_repo_exit(b, self, res) ==
    Reraise(b.exc, TempRepoConfig_exit([b EXCEPT !.exc = None, !.self = self], res))

----------------------------------------------------------------------------
(* environment.py: the scenario hooks *)

\* before_scenario as it would be if it did not reset the two handles.
before_scenario_noreset(w, name) ==
    LET w1 == [w EXCEPT !.config_option = None, !.releasever_option = None,
                        !.installroot_option = None]
    IN  IF ConfDir \notin w1.dirs THEN Raise(w1, "OSError:ENOENT")
        ELSE LET w2 == [w1 EXCEPT
                          !.backups = (name :> << >>) @@ @,
                          !.created = @ \cup {<<ConfDir, name>>}]
             IN  IF w2.config = NoFile THEN Raise(w2, "IOError:ENOENT")
                 ELSE [w2 EXCEPT !.backups[name] = w2.config[1],
                                 !.backupfn = name,
                                 !.config = << << >> >>]

\* before_scenario: the five fields are reset, an empty backup file called
\* name is created next to the live configuration (OSError when the
\* directory is gone), the live configuration is opened for reading
\* (IOError when it does not exist) and copied, context.backupfn is set and
\* the live configuration is truncated.
before_scenario(w, name) ==
    LET w1 == [w EXCEPT !.temp_resource = NoObj, !.temp_repo = NoObj,
                        !.config_option = None, !.releasever_option = None,
                        !.installroot_option = None]
    IN  IF ConfDir \notin w1.dirs THEN Raise(w1, "OSError:ENOENT")
        ELSE LET w2 == [w1 EXCEPT
                          !.backups = (name :> << >>) @@ @,
                          !.created = @ \cup {<<ConfDir, name>>}]
             IN  IF w2.config = NoFile THEN Raise(w2, "IOError:ENOENT")
                 ELSE [w2 EXCEPT !.backups[name] = w2.config[1],
                                 !.backupfn = name,
                                 !.config = << << >> >>]

\* Lines 249-255 as they would be if the backup were deleted without being
\* copied back.
restore_config_nocopy(w) ==
    IF w.backupfn = Unset THEN Raise(w, "AttributeError")
    ELSE IF ~Truthy(w.backupfn) THEN w
    ELSE LET a == [w EXCEPT !.attempted = @ \cup {"backup"}]
         IN  IF w.backupfn \notin DOMAIN w.backups
               THEN Raise(a, "IOError:ENOENT")
             ELSE [a EXCEPT
                     !.backups = Restrict(@, DOMAIN @ \ {w.backupfn}),
                     !.tried = Append(@, <<ConfDir, w.backupfn>>),
                     !.trace = Append(@, <<"os.remove", <<ConfDir, w.backupfn>>>>),
                     !.removed = Append(@, <<ConfDir, w.backupfn>>),
                     !.backupfn = None]

\* Lines 249-255: reading a missing attribute raises AttributeError; with a
\* backup recorded, copyfile raises IOError when the backup (or its
\* directory, which is the live configuration's) is gone, which is not the
\* shutil.Error the code catches; then os.remove and the reset.
restore_config(w) ==
    IF w.backupfn = Unset THEN Raise(w, "AttributeError")
    ELSE IF ~Truthy(w.backupfn) THEN w
    ELSE LET a == [w EXCEPT !.attempted = @ \cup {"backup"}]
         IN  IF w.backupfn \notin DOMAIN w.backups
               THEN Raise(a, "IOError:ENOENT")
             ELSE [a EXCEPT
                     !.config = <<w.backups[w.backupfn]>>,
                     !.backups = Restrict(@, DOMAIN @ \ {w.backupfn}),
                     !.tried = Append(@, <<ConfDir, w.backupfn>>),
                     !.trace = Append(@, <<"os.remove", <<ConfDir, w.backupfn>>>>),
                     !.removed = Append(@, <<ConfDir, w.backupfn>>),
                     !.backupfn = None]

\* Lines 256-257.
remove_temp_resource(w) ==
    IF w.temp_resource = NoObj THEN w
    ELSE LET r == TempResourceCopy_remove(
                      [w EXCEPT !.self = w.temp_resource[1],
                                !.attempted = @ \cup {"temp_resource"}])
         IN  [r EXCEPT !.temp_resource = <<r.self>>]

\* Lines 258-259.
remove_temp_repo(w, res) ==
    IF w.temp_repo = NoObj THEN w
    ELSE LET r == TempRepoConfig_remove(
                      [w EXCEPT !.self = w.temp_repo[1],
                                !.attempted = @ \cup {"temp_repo"}], res)
         IN  [r EXCEPT !.temp_repo = <<r.self>>]

\* Lines 260-261 as they would be if the install root were left alone.
remove_installroot_skip(w) ==
    IF ~Truthy(w.installroot_option) THEN w
    ELSE [w EXCEPT !.attempted = @ \cup {"installroot"}]

\* Lines 260-261.
remove_installroot(w) ==
    IF ~Truthy(w.installroot_option) THEN w
    ELSE rmtree([w EXCEPT !.attempted = @ \cup {"installroot"}],
                w.installroot_option)

\* after_scenario: the four cleanups in order; the first exception ends it.
after_scenario(w, res) ==
    LET w1 == restore_config(w)
        w2 == Bind(w1, remove_temp_resource(w1))
        w3 == Bind(w2, remove_temp_repo(w2, res))
    IN  Bind(w3, remove_installroot(w3))

\* The cleanups that apply to the scenario, as after_scenario finds it.
Applicable(w) ==
    (IF w.backupfn # Unset /\ Truthy(w.backupfn) THEN {"backup"} ELSE {}) \cup
    (IF w.temp_resource # NoObj THEN {"temp_resource"} ELSE {}) \cup
    (IF w.temp_repo # NoObj THEN {"temp_repo"} ELSE {}) \cup
    (IF Truthy(w.installroot_option) THEN {"installroot"} ELSE {})

----------------------------------------------------------------------------
(* steps.py: helpers *)

\* _prepare_installroot: the install root is populated through the DNF API.
\* ok is whether the download and the transaction succeed; made is whether
\* a failing run had already created the directory.
_prepare_installroot(w, name, ok, made) ==
    LET m == IF (ok \/ made) /\ name \notin w.dirs
             THEN [w EXCEPT !.dirs = @ \cup {name},
                            !.created = @ \cup {<<name, "">>}]
             ELSE w
    IN  IF ok THEN m ELSE Raise(m, "DownloadError")

\* _run_repoquery: ['repoquery', '--repoid', repo] through run_dnf.
_run_repoquery(w, configfn, repo, root, releasever, quiet, res) ==
    run_dnf(w,
            IF Truthy(repo) THEN <<<<"repoquery">>, <<"--repoid">>, <<repo>>>>
                            ELSE <<<<"repoquery">>>>,
            configfn, root, releasever, quiet, FALSE, None, None, res)

\* A text is a sequence of pieces, "\n" being the line break; a line is the
\* sequence of the pieces between two breaks.
FirstBreak(s) ==
    IF \E i \in DOMAIN s : s[i] = "\n"
      THEN CHOOSE i \in DOMAIN s : s[i] = "\n" /\ \A k \in 1..(i - 1) : s[k] # "\n"
      ELSE 0

RECURSIVE splitlines(_)
\* str.splitlines(): the lines without their breaks; a break at the very end
\* opens no further line.
splitlines(s) ==
    IF s = << >> THEN << >>
    ELSE IF FirstBreak(s) = 0 THEN <<s>>
    ELSE <<SubSeq(s, 1, FirstBreak(s) - 1)>>
         \o splitlines(SubSeq(s, FirstBreak(s) + 1, Len(s)))

\* The comparison as it would be if it compared the two lists as sets.
_test_repo_equals_dir_unordered(w, repoid, reporoot, reporelease, dnfconfig, q) ==
    LET r == _run_repoquery(w, dnfconfig, repoid, reporoot, reporelease,
                            TRUE, q.query)
        lines == splitlines(r.ret[1])
    IN  IF r.exc = "CalledProcessError" THEN Raise(r, "ValueError")
        ELSE IF r.exc # None THEN r
        ELSE IF ~q.load THEN Raise(r, "ValueError")
        ELSE IF {lines[i] : i \in DOMAIN lines} # {q.nevras[i] : i \in DOMAIN q.nevras}
          THEN Raise(r, "AssertionError")
        ELSE r

\* _test_repo_equals_dir: q.query is what becomes of the query (its output
\* is what the query prints), q.load whether the metadata directory can be
\* loaded and q.nevras the identifiers loaded from the directory.
_test_repo_equals_dir(w, repoid, reporoot, reporelease, dnfconfig, q) ==
    LET r == _run_repoquery(w, dnfconfig, repoid, reporoot, reporelease,
                            TRUE, q.query)
    IN  IF r.exc = "CalledProcessError" THEN Raise(r, "ValueError")
        ELSE IF r.exc # None THEN r
        ELSE IF ~q.load THEN Raise(r, "ValueError")
        ELSE IF splitlines(r.ret[1]) # q.nevras THEN Raise(r, "AssertionError")
        ELSE r

----------------------------------------------------------------------------
(* environment.py: repo_config *)

\* repo_config as it would be if gpgcheck were tested for truth, like the URLs.
repo_config_truthy(baseurl, metalink, mirrorlist, gpgcheck, gpgkey) ==
    <<<<"[dnf-extra-tests]">>, <<"metadata_expire", "0">>>>
    \o (IF Truthy(baseurl) THEN <<<<"baseurl", baseurl>>>> ELSE << >>)
    \o (IF Truthy(metalink) THEN <<<<"metalink", metalink>>>> ELSE << >>)
    \o (IF Truthy(mirrorlist) THEN <<<<"mirrorlist", mirrorlist>>>> ELSE << >>)
    \o (IF gpgcheck = "True" THEN <<<<"gpgcheck", "true">>>> ELSE << >>)
    \o (IF Truthy(gpgkey) THEN <<<<"gpgkey", gpgkey>>>> ELSE << >>)

\* The lines of a repository configuration, each as <<key, value>>; gpgcheck
\* is None, "True" or "False".
repo_config(baseurl, metalink, mirrorlist, gpgcheck, gpgkey) ==
    <<<<"[dnf-extra-tests]">>, <<"metadata_expire", "0">>>>
    \o (IF Truthy(baseurl) THEN <<<<"baseurl", baseurl>>>> ELSE << >>)
    \o (IF Truthy(metalink) THEN <<<<"metalink", metalink>>>> ELSE << >>)
    \o (IF Truthy(mirrorlist) THEN <<<<"mirrorlist", mirrorlist>>>> ELSE << >>)
    \o (IF gpgcheck # None
        THEN <<<<"gpgcheck", IF gpgcheck = "True" THEN "true" ELSE "false">>>>
        ELSE << >>)
    \o (IF Truthy(gpgkey) THEN <<<<"gpgkey", gpgkey>>>> ELSE << >>)

----------------------------------------------------------------------------
(* steps.py: the steps that configure DNF *)

Headings == <<"Option", "Value">>

RECURSIVE cli_rows(_, _)
RECURSIVE cli_rows_atomic(_, _)
\* The loop as it would be if the options were all tested before any of
\* them is stored.
cli_rows_atomic(w, rows) ==
    IF rows = << >> THEN w
    ELSE IF \E k \in DOMAIN rows :
               rows[k][1] \notin {"--config", "--releasever", "--installroot"}
      THEN Raise(w, "NotImplementedError")
    ELSE IF Head(rows)[1] = "--config"
      THEN cli_rows_atomic([w EXCEPT !.config_option = Head(rows)[2]], Tail(rows))
    ELSE IF Head(rows)[1] = "--releasever"
      THEN cli_rows_atomic([w EXCEPT !.releasever_option = Head(rows)[2]], Tail(rows))
    ELSE cli_rows_atomic([w EXCEPT !.installroot_option = Head(rows)[2]], Tail(rows))

\* The loop of _configure_dnf_cli over the rows of the table.
cli_rows(w, rows) ==
    IF rows = << >> THEN w
    ELSE LET option == Head(rows)[1]
             value == Head(rows)[2]
         IN  IF option = "--config"
               THEN cli_rows([w EXCEPT !.config_option = value], Tail(rows))
             ELSE IF option = "--releasever"
               THEN cli_rows([w EXCEPT !.releasever_option = value], Tail(rows))
             ELSE IF option = "--installroot"
               THEN cli_rows([w EXCEPT !.installroot_option = value], Tail(rows))
             ELSE Raise(w, "NotImplementedError")

\* _configure_dnf_cli as it would be without the test of the headings.
_configure_dnf_cli_anyheadings(w, table) ==
    IF table = NoObj THEN Raise(w, "ValueError")
    ELSE cli_rows(w, table[1].rows)

\* _configure_dnf_cli: table is NoObj or <<[headings, rows]>>.
_configure_dnf_cli(w, table) ==
    IF table = NoObj THEN Raise(w, "ValueError")
    ELSE IF table[1].headings # Headings THEN Raise(w, "NotImplementedError")
    ELSE cli_rows(w, table[1].rows)

\* Text appended to a file that may not exist yet.
AppendTo(file, lines) == <<(IF file = NoFile THEN << >> ELSE file[1]) \o lines>>

\* _configure_dnf_config: '[main]' and one line per row are appended to the
\* live configuration file (IOError when its directory is gone).
_configure_dnf_config(w, table) ==
    IF table = NoObj THEN Raise(w, "ValueError")
    ELSE IF table[1].headings # Headings THEN Raise(w, "NotImplementedError")
    ELSE IF ConfDir \notin w.dirs THEN Raise(w, "IOError:ENOENT")
    ELSE [w EXCEPT !.config = AppendTo(@, <<MainLine>> \o table[1].rows)]

\* context.temp_repo = config, once config.add() has returned (line 398).
record_repo(a) == IF a.exc # None THEN a ELSE [a EXCEPT !.temp_repo = <<a.self>>]

\* The second half of _configure_baseurl as it would be without the test of
\* context.temp_repo.
register_repo_nocheck(w, repoid, cfg, name) ==
    IF repoid # REPOID THEN Raise(w, "NotImplementedError")
    ELSE record_repo(TempRepoConfig_add([w EXCEPT !.self = cfg], name))

\* The second half of _configure_baseurl (lines 393-398).
register_repo(w, repoid, cfg, name) ==
    IF repoid # REPOID THEN Raise(w, "NotImplementedError")
    ELSE IF w.temp_repo # NoObj THEN Raise(w, "NotImplementedError")
    ELSE record_repo(TempRepoConfig_add([w EXCEPT !.self = cfg], name))

ResourceBasename(urltype) ==
    CASE urltype = "metalink" -> "metalink.xml"
      [] urltype = "mirrorlist" -> "mirrorlist.txt"
      [] urltype = "gpgkey" -> "TEST-GPG-KEY"

\* The configuration of a repository that uses a copied resource.
ResourceConfig(urltype, url) ==
    CASE urltype = "metalink" ->
           TempRepoConfig(None, url.text, None, None, None, None)
      [] urltype = "mirrorlist" ->
           TempRepoConfig(None, None, url.text, None, None, None)
      [] urltype = "gpgkey" ->
           TempRepoConfig("REPODN", None, None, "True", url.text, None)

\* context.temp_resource = resource, once resource.create() has returned
\* c, and then the second half of the step.
register_after_copy(c, repoid, cfg, name) ==
    IF c.exc # None THEN c
    ELSE register_repo([c EXCEPT !.temp_resource = <<c.self>>], repoid, cfg, name)

\* _configure_baseurl: url is [text, plain, dirname, basename], plain being
\* "the scheme is file and there is no netloc, params, query or fragment".
_configure_baseurl(w, repoid, urltype, url, name) ==
    IF urltype = "baseurl"
      THEN register_repo(w, repoid,
               TempRepoConfig(url.text, None, None, None, None, None), name)
    ELSE IF urltype \in {"metalink", "mirrorlist", "gpgkey"}
      THEN IF ~url.plain THEN Raise(w, "NotImplementedError")
           ELSE IF url.basename # ResourceBasename(urltype)
             THEN Raise(w, "NotImplementedError")
           ELSE IF w.temp_resource # NoObj THEN Raise(w, "NotImplementedError")
           ELSE register_after_copy(
                    TempResourceCopy_create(
                        [w EXCEPT !.self = TempResourceCopy(
                             ResourceBasename(urltype), url.dirname)]),
                    repoid, ResourceConfig(urltype, url), name)
    ELSE Raise(w, "NotImplementedError")

----------------------------------------------------------------------------
(* steps.py: root descriptions.  w.ret is <<value returned>>.              *)

\* translate_root as it would be if it did not test installroot_option.
translate_root_unchecked(w, description) ==
    IF description = "host" THEN [w EXCEPT !.ret = <<None>>]
    ELSE IF description = "guest"
      THEN [w EXCEPT !.ret = <<w.installroot_option>>]
    ELSE Raise(w, "NotImplementedError")

\* translate_root of _test_verification and of _test_import (the same code).
translate_root(w, description) ==
    IF description = "host" THEN [w EXCEPT !.ret = <<None>>]
    ELSE IF description = "guest"
      THEN IF ~Truthy(w.installroot_option) THEN Raise(w, "ValueError")
           ELSE [w EXCEPT !.ret = <<w.installroot_option>>]
    ELSE Raise(w, "NotImplementedError")

\* Lines 428-433 of _test_management: w.ret is <<what base.conf.installroot
\* is set to>>, <<None>> when it is left alone.
_test_management_root(w, root) ==
    IF root = "custom install"
      THEN IF ~Truthy(w.installroot_option) THEN Raise(w, "ValueError")
           ELSE [w EXCEPT !.ret = <<w.installroot_option>>]
    ELSE IF root # "system" THEN Raise(w, "NotImplementedError")
    ELSE [w EXCEPT !.ret = <<None>>]

----------------------------------------------------------------------------
(* steps.py: the steps that write or delete files of the fixture *)

\* "if context.installroot_option: _prepare_installroot(...)".
prepare_if_configured(w, ok, made) ==
    IF Truthy(w.installroot_option)
      THEN _prepare_installroot(w, w.installroot_option, ok, made)
      ELSE w

\* The try block of _test_management (lines 426-441); installed is whether
\* the query finds the package installed in the root it looks at.
management_try(w, root, installed) ==
    LET r == _test_management_root(w, root)
    IN  IF r.exc = None /\ ~installed THEN Raise(r, "AssertionError") ELSE r

\* Its finally clause (lines 442-444), entered from the try block's end b.
management_finally(b, res) ==
    Reraise(b.exc,
            run_dnf([b EXCEPT !.exc = None], << <<"remove">>, <<"foo">> >>, None,
                    b.installroot_option, b.releasever_option, TRUE, TRUE,
                    None, None, res))

\* What follows the installation in _test_management, when it succeeded.
management_after_install(w, root, installed, res) ==
    Bind(w, management_finally(management_try(w, root, installed), res))

\* Lines 423-444 once the install root is prepared: the package is installed
\* (res1), then the try block and the finally clause (res2).
management_run(w, root, res1, installed, res2) ==
    Bind(w, management_after_install(
                run_dnf(w, << <<"install">>, <<"foo-1-1.noarch.rpm">> >>,
                        w.config_option, w.installroot_option,
                        w.releasever_option, TRUE, TRUE, None, None, res1),
                root, installed, res2))

\* _test_management.
_test_management(w, root, ok, made, res1, installed, res2) ==
    management_run(prepare_if_configured(w, ok, made), root, res1, installed, res2)

\* _test_config: the file the repository configuration is appended to is the
\* live configuration ('default'), the guest's ("guest's default", ValueError
\* without an install root) or the file named by the step.  The guest's
\* file lives and dies with the install root and is not tracked apart.
_test_config(w, expected, ok, made, q) ==
    IF expected = "guest's default" /\ ~Truthy(w.installroot_option)
      THEN Raise(w, "ValueError")
    ELSE
      LET configfn == IF expected = "default" THEN <<ConfDir, "dnf.conf">>
                      ELSE IF expected = "guest's default"
                        THEN <<w.installroot_option, "dnf.conf">>
                      ELSE <<XDir, expected>>
          text == repo_config("REPODN", None, None, None, None)
          write(x) ==
              IF configfn = <<ConfDir, "dnf.conf">>
                THEN [x EXCEPT !.config = AppendTo(@, text)]
                ELSE IF configfn[1] = XDir
                  THEN [x EXCEPT !.created = @ \cup {configfn},
                                 !.xfiles = @ \cup {configfn}]
                ELSE x
          w1 == prepare_if_configured(w, ok, made)
          w2 == Bind(w1, makedirs(w1, configfn[1], TRUE))
          w3 == Bind(w2, write(w2))
      IN  Bind(w3, _test_repo_equals_dir(
                   w3, REPOID, w3.installroot_option, w3.releasever_option,
                   w3.config_option, q))

\* _test_repository: rmtree(path) unless it is absent, copytree(REPODN, path),
\* the comparison, and rmtree(path) in the finally clause.
_test_repository(w, repoid, path, ok, made, q) ==
    LET w1 == prepare_if_configured(w, ok, made)
        w2 == IF path \in w1.dirs THEN rmtree(w1, path) ELSE w1
        w3 == [w2 EXCEPT !.dirs = @ \cup {path},
                         !.created = @ \cup {<<path, "">>}]
        w4 == _test_repo_equals_dir(
                  w3, repoid, w3.installroot_option, w3.releasever_option,
                  w3.config_option, q)
    IN  IF w1.exc # None THEN w1
        ELSE [rmtree(w4, path) EXCEPT !.wiped = @ \/ path = ConfDir]

\* The directories of base.conf.pluginpath[0] and base.conf.pluginconfpath[0].
PluginDir == "plugindir"
PluginConfDir == "pluginconfdir"

\* What the testing plugin prints when it has read its configuration.
ConfLine == "dnf-extra-tests plugin's option is configured."

\* "expected in output", the output being a sequence of pieces.
Contains(output, expected) == \E i \in DOMAIN output : output[i] = expected

\* The block of the with statement of _test_plugins_conf (lines 949-953).
plugins_conf_block(w, res) ==
    LET r == run_dnf_clean_metadata(w, w.config_option, w.installroot_option,
                                    w.releasever_option, TRUE, TRUE, None, None,
                                    res)
    IN  BlockEnd(IF r.exc = None /\ ~Contains(r.ret[1], ConfLine)
                   THEN Raise(r, "AssertionError") ELSE r)

\* The second manager of the with statement and the block, in the world e1
\* the first manager was entered in.
plugins_conf_inner(e1, confdn, copied2, res) ==
    LET e2 == TempResourceCopy_enter(
                  [e1 EXCEPT !.self = TempResourceCopy("dnf-extra-tests.conf",
                                                       confdn)], copied2)
    IN  IF e2.exc # None THEN e2
        ELSE with_copy_exit(plugins_conf_block(e2, res), e2.self)

\* _test_plugins_conf: path is <<"host's ", directory>> or another phrase;
\* the plugin and its configuration are copied by two managers of one with
\* statement.
_test_plugins_conf(w, path, copied1, copied2, res) ==
    LET confdn == IF path[1] = "host's " THEN path[2] ELSE PluginConfDir
        e1 == TempResourceCopy_enter(
                  [w EXCEPT !.self = TempResourceCopy("dnf-extra-tests.py",
                                                      PluginDir)], copied1)
    IN  IF e1.exc # None THEN e1
        ELSE with_copy_exit(plugins_conf_inner(e1, confdn, copied2, res), e1.self)

\* "with TempRepoConfig(baseurl, dirname=dirname): _test_repo_equals_dir(...)"
\* in world w, as in _test_reposdir (lines 672-676) and _test_releasever
\* (lines 883-887).
with_repo_compare(w, baseurl, dirname, name, q, res) ==
    LET e == TempRepoConfig_enter(
                 [w EXCEPT !.self = TempRepoConfig(baseurl, None, None, None,
                                                   None, dirname)], name)
    IN  IF e.exc # None THEN e
        ELSE with_repo_exit(
                 BlockEnd(_test_repo_equals_dir(
                              e, REPOID, e.installroot_option,
                              e.releasever_option, e.config_option, q)),
                 e.self, res)

\* _test_reposdir: the repository is configured in the named directory, or
\* in the default one, for the time of the comparison.
_test_reposdir(w, dirname, ok, made, name, q, res) ==
    Bind(prepare_if_configured(w, ok, made),
         with_repo_compare(prepare_if_configured(w, ok, made), "REPODN",
                           IF dirname = "default directory" THEN None ELSE dirname,
                           name, q, res))

\* The directory tempfile.mkdtemp() makes in _test_releasever.
TmpDir == "tmpdir"

\* The typographic quotation marks U+201C and U+201D.
OpenQuote == "U+201C"
CloseQuote == "U+201D"

\* re.match of line 865: expected, a sequence of pieces, is something
\* between the two quotation marks.
IsQuoted(expected) ==
    /\ Len(expected) >= 3
    /\ expected[1] = OpenQuote
    /\ expected[Len(expected)] = CloseQuote

\* Whether _test_releasever knows the expectation (lines 862-870).
KnownExpectation(expected) ==
    \/ expected = <<"the host's release version">>
    \/ IsQuoted(expected)
    \/ expected = <<"the guest's release version">>

\* tempfile.mkdtemp() and shutil.copytree(REPODN, repodn) (lines 872 and 878).
releasever_tree(w) ==
    [w EXCEPT !.dirs = @ \cup {TmpDir}, !.created = @ \cup {<<TmpDir, "">>}]

\* Its finally clause: shutil.rmtree(os.path.dirname(repodn)).
releasever_finally(b) == Reraise(b.exc, rmtree([b EXCEPT !.exc = None], TmpDir))

\* The try statement of _test_releasever (lines 882-889) in world w.
releasever_try(w, name, q, res) ==
    Bind(w, releasever_finally(
                with_repo_compare(w, "repourl", None, name, q, res)))

\* _test_releasever: the scratch tree is made, then the install root is
\* prepared, then the try statement whose finally clause deletes the tree.
_test_releasever(w, expected, ok, made, name, q, res) ==
    IF ~KnownExpectation(expected) THEN Raise(w, "NotImplementedError")
    ELSE releasever_try(prepare_if_configured(releasever_tree(w), ok, made),
                        name, q, res)

----------------------------------------------------------------------------
(* steps.py: the steps that look where DNF logs, caches and keeps its      *)
(* tracking information.  d.host is the directory of the host (logdir,     *)
(* cachedir, persistdir) and d.guest the same path below the install root, *)
(* each NoFile or <<the set of its entries>>; an entry is [name, file],    *)
(* name being <<prefix, rest>>.  new is what the DNF command writes:       *)
(* new.host into the host's directory, new.guest into the chrooted one.    *)

\* The directory the steps call chrooteddn: the host's without install root.
Chrooted(w) == IF Truthy(w.installroot_option) THEN "guest" ELSE "host"

\* os.listdir with ENOENT suppressed.
Listing(dir) == IF dir = NoFile THEN {} ELSE dir[1]

\* log_files(dirname): the regular files whose name starts with 'dnf'.
log_files(dir) == {e \in Listing(dir) : e.name[1] = "dnf" /\ e.file}

\* A directory after os.remove of each of its log files.
RemoveLogs(dir) == IF dir = NoFile THEN dir ELSE <<dir[1] \ log_files(dir)>>

\* The directories after the DNF command has written its entries.
Written(w, d, new) ==
    LET put(dir, es) == IF es = {} THEN dir ELSE <<Listing(dir) \cup es>>
        h == [d EXCEPT !.host = put(@, new.host)]
    IN  [h EXCEPT ![Chrooted(w)] = put(@, new.guest)]

_test_logging(w, destination, d, ok, made, new, res) ==
    LET w1 == prepare_if_configured(w, ok, made)
        d1 == [d EXCEPT !.host = RemoveLogs(@)]
        d2 == [d1 EXCEPT ![Chrooted(w)] = RemoveLogs(@)]
        w2 == run_dnf_clean_metadata(w1, w1.config_option, w1.installroot_option,
                                     w1.releasever_option, TRUE, TRUE, None, None,
                                     res)
        d3 == Written(w, d2, new)
        logged == log_files(d3.host) # {}
    IN  IF w1.exc # None THEN [w |-> w1, d |-> d]
        ELSE IF w2.exc # None THEN [w |-> w2, d |-> d3]
        ELSE IF destination = "locally"
          THEN [w |-> IF logged THEN w2 ELSE Raise(w2, "AssertionError"), d |-> d3]
        ELSE IF destination = "in the guest"
          THEN [w |-> IF log_files(d3[Chrooted(w)]) = {} \/ logged
                      THEN Raise(w2, "AssertionError") ELSE w2,
                d |-> d3]
        ELSE [w |-> Raise(w2, "NotImplementedError"), d |-> d3]

_test_caching(w, destination, d, ok, made, new, res) ==
    LET w1 == prepare_if_configured(w, ok, made)
        d1 == [d EXCEPT !.host = NoFile]
        d2 == [d1 EXCEPT ![Chrooted(w)] = NoFile]
        w2 == run_dnf(w1, << <<"makecache">> >>, w1.config_option,
                      w1.installroot_option, w1.releasever_option, TRUE, TRUE,
                      None, None, res)
        d3 == Written(w, d2, new)
        content == Listing(d3.host)
    IN  IF w1.exc # None THEN [w |-> w1, d |-> d]
        ELSE IF w2.exc # None THEN [w |-> w2, d |-> d3]
        ELSE IF destination = "locally"
          THEN [w |-> IF content # {} THEN w2 ELSE Raise(w2, "AssertionError"),
                d |-> d3]
        ELSE IF destination = "in the guest"
          THEN [w |-> IF d3[Chrooted(w)] = NoFile THEN Raise(w2, "OSError:ENOENT")
                      ELSE IF Listing(d3[Chrooted(w)]) = {} \/ content # {}
                        THEN Raise(w2, "AssertionError")
                      ELSE w2,
                d |-> d3]
        ELSE [w |-> Raise(w2, "NotImplementedError"), d |-> d3]

\* In _test_tracking the directories are t.host and t.guest as above,
\* t.backup (backuppersistdn: NoFile or <<its entries>>) and t.backupdn
\* (whether the directory made by tempfile.mkdtemp() exists).

\* "with _suppress_enoent(): shutil.copytree(src, dst)"; dst does not exist.
copytree_suppressed(t, src, dst) ==
    IF t[src] = NoFile THEN t ELSE [t EXCEPT ![dst] = t[src]]

\* "with _suppress_enoent(): shutil.rmtree(p)".
rmtree_suppressed(t, p) == [t EXCEPT ![p] = NoFile]

\* Lines 808-814: mkdtemp, the host's directory is copied to the backup and
\* deleted.
tracking_backup(d) ==
    rmtree_suppressed(
        copytree_suppressed([host |-> d.host, guest |-> d.guest,
                             backup |-> NoFile, backupdn |-> TRUE],
                            "host", "backup"),
        "host")

\* Lines 818-824: the assertion on the content of the host's directory, in
\* the world w2 the command ended in.
tracking_verdict(w2, destination, content) ==
    IF w2.exc # None THEN w2
    ELSE IF destination = "in the guest"
      THEN IF content # {} THEN Raise(w2, "AssertionError") ELSE w2
    ELSE IF content = {} THEN Raise(w2, "AssertionError") ELSE w2

\* The rest of the try block (lines 815-824), the host's directory being
\* moved away in t.
tracking_try(w, destination, t, new, res) ==
    [w |-> tracking_verdict(
               run_dnf(w, << <<"group">>, <<"install">>, <<"Books and Guides">> >>,
                       w.config_option, w.installroot_option,
                       IF Truthy(w.releasever_option) THEN w.releasever_option
                                                      ELSE "detected",
                       TRUE, TRUE, None, None, res),
               destination, Listing(Written(w, t, new).host)),
     d |-> Written(w, t, new)]

\* The step as it would be if the directory were put back only when the try
\* block ends normally.
tracking_finally_onpass(r) ==
    IF r.w.exc # None THEN r
    ELSE [w |-> r.w,
          d |-> [copytree_suppressed(rmtree_suppressed(r.d, "host"),
                                     "backup", "host")
                   EXCEPT !.backup = NoFile, !.backupdn = FALSE]]

\* The finally clause (lines 825-830): the host's directory is deleted, the
\* backup copied back and the temporary directory deleted.
tracking_finally(r) ==
    [w |-> r.w,
     d |-> [copytree_suppressed(rmtree_suppressed(r.d, "host"), "backup", "host")
              EXCEPT !.backup = NoFile, !.backupdn = FALSE]]

\* Lines 831-836: the guest's directory is looked at last.
tracking_guest(r, destination) ==
    IF r.w.exc # None \/ destination # "in the guest" THEN r
    ELSE IF ~Truthy(r.w.installroot_option)
      THEN [r EXCEPT !.w = Raise(@, "ValueError")]
    ELSE IF r.d.guest = NoFile THEN [r EXCEPT !.w = Raise(@, "OSError:ENOENT")]
    ELSE IF Listing(r.d.guest) = {} THEN [r EXCEPT !.w = Raise(@, "AssertionError")]
    ELSE r

\* _test_tracking: the host's directory is moved away for the command and put
\* back in the finally clause; the guest's is only listed, at the end.
_test_tracking(w, destination, d, new, res) ==
    IF destination \notin {"locally", "in the guest"}
      THEN [w |-> Raise(w, "NotImplementedError"),
            d |-> [host |-> d.host, guest |-> d.guest, backup |-> NoFile,
                   backupdn |-> FALSE]]
    ELSE tracking_guest(
             tracking_finally(
                 tracking_try(w, destination, tracking_backup(d), new, res)),
             destination)

----------------------------------------------------------------------------
(* The scenario runner *)

\* The world the hooks and the steps work on: the context, the file system,
\* and what the call being made has done so far.
World ==
    [backupfn |-> backupfn, temp_resource |-> temp_resource,
     temp_repo |-> temp_repo, config_option |-> config_option,
     releasever_option |-> releasever_option,
     installroot_option |-> installroot_option,
     dirs |-> dirs, config |-> config, backups |-> backups,
     resfiles |-> resfiles, repofiles |-> repofiles, xfiles |-> xfiles,
     wiped |-> wiped, created |-> created,
     self |-> NoObj, exc |-> None, attempted |-> {}, tried |-> << >>,
     removed |-> << >>, cmds |-> << >>, trace |-> << >>,
     ret |-> NoObj, returncode |-> NoObj, ctxlog |-> << >>]

\* The state after a call that ended in world w.
Commit(w) ==
    /\ backupfn' = w.backupfn
    /\ temp_resource' = w.temp_resource
    /\ temp_repo' = w.temp_repo
    /\ config_option' = w.config_option
    /\ releasever_option' = w.releasever_option
    /\ installroot_option' = w.installroot_option
    /\ dirs' = w.dirs
    /\ config' = w.config
    /\ backups' = w.backups
    /\ resfiles' = w.resfiles
    /\ repofiles' = w.repofiles
    /\ xfiles' = w.xfiles
    /\ wiped' = w.wiped
    /\ created' = {p \in w.created : Exists(w, p)}

Outcome(op, w, applicable) ==
    [op |-> op, exc |-> w.exc, body |-> pc, backupfn |-> backupfn,
     applicable |-> applicable,
     attempted |-> w.attempted, tried |-> w.tried, removed |-> w.removed,
     cmds |-> w.cmds]


ConfigFits(w) ==
    IF w.config = NoFile THEN TRUE ELSE Len(w.config[1]) <= MaxConfigLen

Init ==
    /\ backupfn = Unset
    /\ temp_resource = NoObj
    /\ temp_repo = NoObj
    /\ config_option = None
    /\ releasever_option = None
    /\ installroot_option = None
    /\ dirs = {ConfDir, ReposDir, ResDir}
    /\ config \in {NoFile, <<<<OrigLine>>>>}
    /\ backups = << >>
    /\ resfiles = {}
    /\ repofiles = {}
    /\ xfiles = {}
    /\ pc = "idle"
    /\ origConfig = config
    /\ wiped = FALSE
    /\ created = {}
    /\ last = Outcome("init", World, {})
    /\ clientCopy = TempResourceCopy("dnf-extra-tests.py", ResDir)
    /\ clientRepo = TempRepoConfig("REPODN", None, None, None, None, None)
    /\ apilog = << >>
    /\ fn = NoCall

\* tempfile draws a name that no file has; which one makes no difference.
Fresh(names, dir, taken) ==
    LET free == {n \in names : <<dir, n>> \notin taken}
    IN  IF free = {} THEN {} ELSE {CHOOSE n \in free : TRUE}

\* The runner calls before_scenario.
BeforeScenario ==
    /\ pc = "idle"
    /\ \E name \in Fresh(BackupNames, ConfDir,
                         {<<ConfDir, n>> : n \in DOMAIN backups \cup {backupfn}}) :
         LET w == before_scenario([World EXCEPT !.wiped = FALSE, !.created = {}],
                                  name)
         IN  /\ Commit(w)
             /\ pc' = IF w.exc = None THEN "body" ELSE "skip"
             /\ last' = Outcome("before_scenario", w, {})
             /\ origConfig' = config
    /\ UNCHANGED <<apivars, fn>>

\* The runner calls after_scenario, whether or not the scenario passed.
AfterScenario ==
    /\ pc \in {"body", "skip"}
    /\ \E res \in ProcResults :
         LET w == after_scenario(World, res)
         IN  /\ Commit(w)
             /\ last' = Outcome("after_scenario", w, Applicable(World))
    /\ pc' = "idle"
    /\ UNCHANGED <<origConfig, apivars, fn>>

\* A step ends in world w; a step that raises makes the runner skip the rest.
StepDone(op, w) ==
    /\ ConfigFits(w)
    /\ Commit(w)
    /\ pc' = IF w.exc = None THEN "body" ELSE "skip"
    /\ UNCHANGED <<last, origConfig, apivars, fn>>

\* The tables of the command-line step.
CliTables ==
    {NoObj} \cup
    {<<[headings |-> h, rows |-> rs]>> :
        h \in {Headings, <<"Value", "Option">>},
        rs \in SeqsUpTo({<<"--installroot", RootDir>>, <<"--bogus", "x">>},
                        MaxRows)}

\* The tables of the configuration-file step.
ConfigTables ==
    {NoObj} \cup
    {<<[headings |-> h, rows |-> rs]>> :
        h \in {Headings, <<"Value", "Option">>},
        rs \in SeqsUpTo({<<"debuglevel", "1">>}, MaxRows) \ {<< >>}}

UrlTypes == {"baseurl", "metalink", "ftp"}

Urls ==
    {[text |-> "url", plain |-> p, dirname |-> ResDir, basename |-> b] :
        p \in BOOLEAN, b \in {"metalink.xml", "TEST-GPG-KEY"}}

\* What install-root preparation can do: succeed, or fail with or without
\* the directory made.
PrepCases == {<<TRUE, TRUE>>, <<FALSE, TRUE>>, <<FALSE, FALSE>>}

\* What the repository comparison can meet.
Queries ==
    {[query |-> check_output([started |-> TRUE, code |-> 0, out |-> <<"foo", "\n">>]),
      load |-> TRUE, nevras |-> << <<"foo">> >>],
     [query |-> check_output([started |-> TRUE, code |-> 0, out |-> << >>]),
      load |-> TRUE, nevras |-> << <<"foo">> >>],
     [query |-> check_output([started |-> TRUE, code |-> 0, out |-> << >>]),
      load |-> FALSE, nevras |-> << >>],
     [query |-> check_output([started |-> TRUE, code |-> 1, out |-> << >>]),
      load |-> TRUE, nevras |-> << <<"foo">> >>],
     [query |-> check_output([started |-> FALSE, code |-> 0, out |-> << >>]),
      load |-> TRUE, nevras |-> << <<"foo">> >>]}

\* The paths the "repository available" step is given.
RepoPaths == {ConfDir, ResDir, RootDir, "tmprepo"}

ConfigureDnfCli ==
    /\ pc = "body"
    /\ \E table \in CliTables :
         StepDone("_configure_dnf_cli", _configure_dnf_cli(World, table))

ConfigureDnfConfig ==
    /\ pc = "body"
    /\ \E table \in ConfigTables :
         StepDone("_configure_dnf_config", _configure_dnf_config(World, table))

ConfigureBaseurl ==
    /\ pc = "body"
    /\ \E repoid \in {REPOID, "fedora"}, urltype \in UrlTypes, url \in Urls,
          name \in Fresh(RepoNames, ReposDir, repofiles) :
         StepDone("_configure_baseurl",
                  _configure_baseurl(World, repoid, urltype, url, name))

TestConfig ==
    /\ pc = "body"
    /\ \E expected \in {"default", "guest's default", "x.conf"},
          prep \in PrepCases, q \in Queries :
         StepDone("_test_config",
                  _test_config(World, expected, prep[1], prep[2], q))

TestRepository ==
    /\ pc = "body"
    /\ \E path \in RepoPaths, prep \in PrepCases, q \in Queries :
         StepDone("_test_repository",
                  _test_repository(World, REPOID, path, prep[1], prep[2], q))

Next ==
    \/ BeforeScenario
    \/ ConfigureDnfCli
    \/ ConfigureDnfConfig
    \/ ConfigureBaseurl
    \/ TestConfig
    \/ TestRepository
    \/ AfterScenario

Spec == Init /\ [][Next]_vars

----------------------------------------------------------------------------
(* A client that uses the two handles directly *)

ApiCall(obj, op, pre, w) ==
    [obj |-> obj, op |-> op, pre |-> pre, post |-> w.self._filename,
     exc |-> w.exc, tried |-> w.tried, removed |-> w.removed, cmds |-> w.cmds,
     trace |-> w.trace]

ApiDone(entry, w) ==
    /\ Len(apilog) < MaxCalls
    /\ Commit(w)
    /\ apilog' = Append(apilog, entry)
    /\ UNCHANGED <<pc, last, origConfig, fn>>

CopyCreate ==
    LET w == TempResourceCopy_create([World EXCEPT !.self = clientCopy])
    IN  /\ ApiDone(ApiCall("copy", "create", clientCopy._filename, w), w)
        /\ clientCopy' = w.self
        /\ UNCHANGED clientRepo

CopyRemove ==
    LET w == TempResourceCopy_remove([World EXCEPT !.self = clientCopy])
    IN  /\ ApiDone(ApiCall("copy", "remove", clientCopy._filename, w), w)
        /\ clientCopy' = w.self
        /\ UNCHANGED clientRepo

RepoAdd ==
    \E name \in Fresh(RepoNames, ReposDir, repofiles) :
        LET w == TempRepoConfig_add([World EXCEPT !.self = clientRepo], name)
        IN  /\ ApiDone(ApiCall("repo", "add", clientRepo._filename, w), w)
            /\ clientRepo' = w.self
            /\ UNCHANGED clientCopy

RepoRemove ==
    \E res \in ProcResults :
        LET w == TempRepoConfig_remove([World EXCEPT !.self = clientRepo], res)
        IN  /\ ApiDone(ApiCall("repo", "remove", clientRepo._filename, w), w)
            /\ clientRepo' = w.self
            /\ UNCHANGED clientCopy

NextApi ==
    \/ CopyCreate
    \/ CopyRemove
    \/ RepoAdd
    \/ RepoRemove

SpecApi == Init /\ [][NextApi]_vars

----------------------------------------------------------------------------
(* Functions called on their own, each once, on arguments drawn from small *)
(* sets; fn records the arguments and the result.                          *)

FnDone(op, arg, res) ==
    /\ fn' = [op |-> op, arg |-> arg, res |-> res]
    /\ UNCHANGED <<ctxvars, fsvars, histvars, apivars>>

\* The paths makedirs is given, and the trees it finds.
Paths == UNION {[1..k -> {"d"}] : k \in 1..MaxDepth}
Trees ==
    {t \in [dirs : SUBSET Paths, files : SUBSET Paths] :
        /\ t.dirs \cap t.files = {}
        /\ \A p \in t.dirs \cup t.files : IsDir(t, Parent(p))}

CallMakedirs ==
    /\ fn = NoCall
    /\ \E t \in Trees, name \in Paths, exist_ok \in BOOLEAN, denied \in BOOLEAN :
        FnDone("makedirs",
               [t |-> t, name |-> name, exist_ok |-> exist_ok, denied |-> denied],
               makedirs_fs(t, name, exist_ok, denied))

\* The values of a string option: not given, empty, given.
OptValues == {None, "", "v"}

\* The args lists run_dnf is given.
ArgLists == {<< >>, << <<"makecache">> >>, << <<"clean">>, <<"metadata">> >>}

\* What the executable can do with the command line of a call made on its own.
ProcsFn ==
    {[started |-> FALSE, code |-> 0, out |-> << >>]} \cup
    {[started |-> TRUE, code |-> c, out |-> o] :
        c \in 0..MaxExit, o \in {<< >>, <<"foo", "\n">>}}

\* run_dnf; args is the caller's list after the call, which ['dnf'] + args
\* does not touch.
CallRunDnf ==
    /\ fn = NoCall
    /\ \E args \in ArgLists, configfn \in OptValues, root \in OptValues,
       releasever \in OptValues, quiet \in BOOLEAN, assumeyes \in BOOLEAN,
       disablerepo \in OptValues, enablerepo \in OptValues, proc \in ProcsFn :
        LET w == run_dnf(World, args, configfn, root, releasever, quiet,
                         assumeyes, disablerepo, enablerepo, check_output(proc))
        IN  FnDone("run_dnf",
                   [args |-> args, configfn |-> configfn, root |-> root,
                    releasever |-> releasever, quiet |-> quiet,
                    assumeyes |-> assumeyes, disablerepo |-> disablerepo,
                    enablerepo |-> enablerepo, proc |-> proc],
                   [cmdline |-> w.cmds[1], args |-> args, exc |-> w.exc,
                    returncode |-> w.returncode, ret |-> w.ret])

\* The handles a scenario can hold when _configure_baseurl is called: none,
\* a repository (an earlier call for a base URL), or a repository and a
\* resource copy (an earlier call for a metalink); their files exist.
HeldRepo ==
    [TempRepoConfig("url", None, None, None, None, None)
       EXCEPT !._filename = <<ReposDir, NameTable[1]>>]
HeldCopy ==
    [TempResourceCopy("metalink.xml", ResDir)
       EXCEPT !._filename = <<ResDir, "metalink.xml">>]
Registered ==
    {[temp_repo |-> NoObj, temp_resource |-> NoObj],
     [temp_repo |-> <<HeldRepo>>, temp_resource |-> NoObj],
     [temp_repo |-> <<HeldRepo>>, temp_resource |-> <<HeldCopy>>]}

\* The world of a scenario that holds the handles of c, after a
\* before_scenario that has made the backup of an empty configuration.
WorldHolding(c) ==
    [World EXCEPT
       !.backupfn = NameTable[1],
       !.backups = (NameTable[1] :> << >>),
       !.config = << << >> >>,
       !.temp_repo = c.temp_repo,
       !.temp_resource = c.temp_resource,
       !.repofiles = IF c.temp_repo = NoObj THEN {} ELSE {HeldRepo._filename},
       !.resfiles = IF c.temp_resource = NoObj THEN {} ELSE {HeldCopy._filename}]

\* The tables of a command-line step called on its own.
CliRowsFn ==
    {<<"--config", "c1">>, <<"--config", "c2">>, <<"--releasever", "21">>,
     <<"--installroot", RootDir>>, <<"--bogus", "x">>}

CliTablesFn ==
    {NoObj} \cup
    {<<[headings |-> h, rows |-> rs]>> :
        h \in {Headings, <<"Value", "Option">>, <<"Option", "Value", "Note">>},
        rs \in SeqsUpTo(CliRowsFn, MaxCliRows)}

\* The three override fields of the context.
Overrides(w) ==
    [config_option |-> w.config_option, releasever_option |-> w.releasever_option,
     installroot_option |-> w.installroot_option]

\* A command that ran and ended with exit code 0.
CommandDone == check_output([started |-> TRUE, code |-> 0, out |-> << >>])

\* The overrides after the after_scenario that follows a step ending in w,
\* and after the before_scenario of the next scenario.
OverridesAfterTeardown(w) ==
    Overrides(after_scenario([w EXCEPT !.exc = None], CommandDone))
OverridesNextScenario(w) ==
    Overrides(before_scenario(after_scenario([w EXCEPT !.exc = None],
                                             CommandDone),
                              NameTable[2]))

\* _configure_dnf_cli called on its own in a running scenario.
CallConfigureDnfCli ==
    /\ fn = NoCall
    /\ \E table \in CliTablesFn, c \in {None, "c0"}, r \in {None, "20"},
          i \in {None, "oldroot"} :
        LET w == _configure_dnf_cli(
                     [WorldHolding([temp_repo |-> NoObj, temp_resource |-> NoObj])
                        EXCEPT !.config_option = c, !.releasever_option = r,
                               !.installroot_option = i], table)
        IN  FnDone("_configure_dnf_cli",
                   [table |-> table, config_option |-> c,
                    releasever_option |-> r, installroot_option |-> i],
                   [exc |-> w.exc, config_option |-> w.config_option,
                    releasever_option |-> w.releasever_option,
                    installroot_option |-> w.installroot_option,
                    teardown |-> OverridesAfterTeardown(w),
                    next |-> OverridesNextScenario(w)])

RootDescriptions == {"host", "guest", "system", "custom install", "chroot"}

CallTranslateRoot ==
    /\ fn = NoCall
    /\ \E description \in RootDescriptions, i \in {None, "", RootDir} :
        LET w == translate_root([World EXCEPT !.installroot_option = i],
                                description)
        IN  FnDone("translate_root",
                   [description |-> description, installroot_option |-> i],
                   [exc |-> w.exc, ret |-> w.ret])

CallTestManagementRoot ==
    /\ fn = NoCall
    /\ \E root \in RootDescriptions, i \in {None, "", RootDir} :
        LET w == _test_management_root([World EXCEPT !.installroot_option = i],
                                       root)
        IN  FnDone("_test_management",
                   [description |-> root, installroot_option |-> i],
                   [exc |-> w.exc, ret |-> w.ret])

\* _test_management called on its own.
CallTestManagement ==
    /\ fn = NoCall
    /\ \E root \in RootDescriptions, i \in {None, RootDir}, prep \in PrepCases,
          res1 \in ProcResults, installed \in BOOLEAN, res2 \in ProcResults :
        LET w == _test_management([World EXCEPT !.installroot_option = i], root,
                                  prep[1], prep[2], res1, installed, res2)
        IN  FnDone("_test_management_step",
                   [description |-> root, installroot_option |-> i, prep |-> prep,
                    res1 |-> res1, installed |-> installed, res2 |-> res2],
                   [exc |-> w.exc, cmds |-> w.cmds, dirs |-> w.dirs])

\* repo_config called on its own.
CallRepoConfig ==
    /\ fn = NoCall
    /\ \E baseurl \in OptValues, metalink \in OptValues, mirrorlist \in OptValues,
          gpgcheck \in {None, "True", "False"}, gpgkey \in OptValues :
        FnDone("repo_config",
               [baseurl |-> baseurl, metalink |-> metalink,
                mirrorlist |-> mirrorlist, gpgcheck |-> gpgcheck,
                gpgkey |-> gpgkey],
               repo_config(baseurl, metalink, mirrorlist, gpgcheck, gpgkey))

\* What the executable can print for the plugins steps.
ProcResultsPlugins ==
    ProcResults \cup
    {check_output([started |-> TRUE, code |-> 0, out |-> <<ConfLine, "\n">>])}

\* _test_plugins_conf called on its own.
CallTestPluginsConf ==
    /\ fn = NoCall
    /\ \E path \in {<<"the host's default">>, <<"host's ", XDir>>, <<"host's ", PluginDir>>},
          copied1 \in BOOLEAN, copied2 \in BOOLEAN, res \in ProcResultsPlugins :
        LET w == _test_plugins_conf(World, path, copied1, copied2, res)
        IN  FnDone("_test_plugins_conf",
                   [path |-> path, copied1 |-> copied1, copied2 |-> copied2,
                    res |-> res],
                   [exc |-> w.exc, ctxlog |-> w.ctxlog, files |-> w.resfiles])

\* _test_reposdir called on its own.
CallTestReposdir ==
    /\ fn = NoCall
    /\ \E dirname \in {"default directory", XDir}, i \in {None, RootDir},
          prep \in PrepCases, q \in Queries, res \in ProcResults,
          name \in Fresh(RepoNames, ReposDir, repofiles) :
        LET w == _test_reposdir([World EXCEPT !.installroot_option = i],
                                dirname, prep[1], prep[2], name, q, res)
        IN  FnDone("_test_reposdir",
                   [dirname |-> dirname, installroot_option |-> i, prep |-> prep,
                    q |-> q, res |-> res],
                   [exc |-> w.exc, ctxlog |-> w.ctxlog, files |-> w.repofiles])

\* The expectations the $RELEASEVER step is given.
Expectations ==
    {<<"the host's release version">>, <<OpenQuote, "20", CloseQuote>>,
     <<"the guest's release version">>, <<"the latest">>}

\* _test_releasever called on its own.
CallTestReleasever ==
    /\ fn = NoCall
    /\ \E expected \in Expectations, i \in {None, RootDir}, prep \in PrepCases,
          q \in Queries, res \in ProcResults,
          name \in Fresh(RepoNames, ReposDir, repofiles) :
        LET w == _test_releasever([World EXCEPT !.installroot_option = i],
                                  expected, prep[1], prep[2], name, q, res)
        IN  FnDone("_test_releasever",
                   [expected |-> expected, installroot_option |-> i,
                    prep |-> prep, q |-> q, res |-> res, path |-> TmpDir],
                   [exc |-> w.exc, dirs |-> w.dirs, cmds |-> w.cmds])

\* _test_repository called on its own.
CallTestRepository ==
    /\ fn = NoCall
    /\ \E path \in {"tmprepo", ResDir}, i \in {None, RootDir}, prep \in PrepCases,
          q \in Queries :
        LET w == _test_repository([World EXCEPT !.installroot_option = i],
                                  REPOID, path, prep[1], prep[2], q)
        IN  FnDone("_test_repository",
                   [path |-> path, installroot_option |-> i, prep |-> prep,
                    q |-> q],
                   [exc |-> w.exc, dirs |-> w.dirs, cmds |-> w.cmds])

UrlTypesFn == {"baseurl", "metalink", "mirrorlist", "gpgkey", "ftp"}

UrlsFn ==
    {[text |-> "url", plain |-> p, dirname |-> ResDir, basename |-> b] :
        p \in BOOLEAN, b \in {"metalink.xml", "mirrorlist.txt", "TEST-GPG-KEY"}}

\* _configure_baseurl called on its own; tried is what the after_scenario
\* that follows the step calls os.remove on.
CallConfigureBaseurl ==
    /\ fn = NoCall
    /\ \E c \in Registered, repoid \in {REPOID, "fedora"}, urltype \in UrlTypesFn,
          url \in UrlsFn, res \in ProcResults :
        \E name \in Fresh(RepoNames, ReposDir, WorldHolding(c).repofiles) :
        LET w == _configure_baseurl(WorldHolding(c), repoid, urltype, url, name)
        IN  FnDone("_configure_baseurl",
                   [temp_repo |-> c.temp_repo, temp_resource |-> c.temp_resource,
                    repoid |-> repoid, urltype |-> urltype, url |-> url,
                    res |-> res],
                   [exc |-> w.exc, temp_repo |-> w.temp_repo,
                    temp_resource |-> w.temp_resource, created |-> w.created,
                    repofiles |-> w.repofiles, resfiles |-> w.resfiles,
                    tried |-> after_scenario([w EXCEPT !.exc = None], res).tried])

\* What the repository comparison called on its own can meet.
QueriesFn ==
    {[query |-> check_output(proc), load |-> l, nevras |-> n] :
        proc \in {[started |-> FALSE, code |-> 0, out |-> << >>],
                  [started |-> TRUE, code |-> 1, out |-> << >>]}
                 \cup {[started |-> TRUE, code |-> 0, out |-> o] :
                          o \in SeqsUpTo({"foo", "bar", "\n"}, MaxText)},
        l \in BOOLEAN,
        n \in SeqsUpTo({<<"foo">>, <<"bar">>}, MaxPkgs)}

CallTestRepoEqualsDir ==
    /\ fn = NoCall
    /\ \E q \in QueriesFn :
        LET w == _test_repo_equals_dir(World, REPOID, None, None, None, q)
        IN  FnDone("_test_repo_equals_dir", q, [exc |-> w.exc])

\* Entries a directory holds before a step, and the ones the command writes.
OldEntries ==
    {[name |-> <<"dnf", ".log">>, file |-> TRUE],
     [name |-> <<"hawkey", ".log">>, file |-> TRUE]}
NewEntries == {[name |-> <<"dnf", ".rpm.log">>, file |-> TRUE]}

DirsBefore ==
    [host : {NoFile} \cup {<<es>> : es \in SUBSET OldEntries},
     guest : {NoFile} \cup {<<es>> : es \in SUBSET OldEntries}]

Destinations == {"locally", "in the guest", "remotely"}

CallTestLogging ==
    /\ fn = NoCall
    /\ \E destination \in Destinations, i \in {None, RootDir}, d \in DirsBefore,
          prep \in PrepCases, res \in ProcResults,
          new \in [host : SUBSET NewEntries, guest : SUBSET NewEntries] :
        LET r == _test_logging([World EXCEPT !.installroot_option = i],
                               destination, d, prep[1], prep[2], new, res)
        IN  FnDone("_test_logging",
                   [destination |-> destination, installroot_option |-> i,
                    d |-> d, prep |-> prep, new |-> new, res |-> res],
                   [exc |-> r.w.exc, d |-> r.d, cmds |-> r.w.cmds])

CallTestCaching ==
    /\ fn = NoCall
    /\ \E destination \in Destinations, i \in {None, RootDir}, d \in DirsBefore,
          prep \in PrepCases, res \in ProcResults,
          new \in [host : SUBSET NewEntries, guest : SUBSET NewEntries] :
        LET r == _test_caching([World EXCEPT !.installroot_option = i],
                               destination, d, prep[1], prep[2], new, res)
        IN  FnDone("_test_caching",
                   [destination |-> destination, installroot_option |-> i,
                    d |-> d, prep |-> prep, new |-> new, res |-> res],
                   [exc |-> r.w.exc, d |-> r.d, cmds |-> r.w.cmds])

\* _test_tracking does not prepare the install root.
CallTestTracking ==
    /\ fn = NoCall
    /\ \E destination \in Destinations, i \in {None, RootDir}, d \in DirsBefore,
          res \in ProcResults,
          new \in [host : SUBSET NewEntries, guest : SUBSET NewEntries] :
        LET r == _test_tracking([World EXCEPT !.installroot_option = i],
                                destination, d, new, res)
        IN  FnDone("_test_tracking",
                   [destination |-> destination, installroot_option |-> i,
                    d |-> d, prep |-> <<TRUE, TRUE>>, new |-> new, res |-> res],
                   [exc |-> r.w.exc, d |-> [host |-> r.d.host, guest |-> r.d.guest],
                    cmds |-> r.w.cmds, backup |-> r.d.backup,
                    backupdn |-> r.d.backupdn])

NextFn ==
    \/ CallMakedirs
    \/ CallRunDnf
    \/ CallConfigureDnfCli
    \/ CallTranslateRoot
    \/ CallTestManagementRoot
    \/ CallTestManagement
    \/ CallRepoConfig
    \/ CallTestPluginsConf
    \/ CallTestReposdir
    \/ CallTestReleasever
    \/ CallTestRepository
    \/ CallConfigureBaseurl
    \/ CallTestRepoEqualsDir
    \/ CallTestLogging
    \/ CallTestCaching
    \/ CallTestTracking

InitFn == Init /\ config = NoFile

SpecFn == InitFn /\ [][NextFn]_vars

----------------------------------------------------------------------------
(* Properties *)

Count(seq, x) == Cardinality({i \in DOMAIN seq : seq[i] = x})

AfterDone == pc = "idle" /\ last.op = "after_scenario"

\* A clean-metadata command line in which only the repository id is enabled.
IsCleanFor(cmdline, id) ==
    LET words == {cmdline[k] : k \in 2..Len(cmdline)}
    IN  /\ <<"clean">> \in words
        /\ <<"metadata">> \in words
        /\ <<"--disablerepo", "*">> \in words
        /\ <<"--enablerepo", id>> \in words

\* C1: when after_scenario has run, the live configuration file has the
\* content it had just before before_scenario, whether the steps passed or
\* raised, for scenarios whose steps append to or overwrite the file or fail
\* doing so (they do not delete the file's directory).
C1_ConfigRestored ==
    (AfterDone /\ ~wiped) => config = origConfig

\* A scenario whose body raised, and whose backup was copied back.
C1_Witness ==
    /\ AfterDone /\ ~wiped
    /\ last.body = "skip"
    /\ last.removed # << >>
    /\ last.removed[1] = <<ConfDir, last.backupfn>>
    /\ config = <<<<OrigLine>>>>

\* C2: in after_scenario every cleanup that applies to the scenario is
\* attempted, whatever becomes of the others.
C2_EachCleanupAttempted ==
    AfterDone => last.applicable \subseteq last.attempted

\* C3: when a temporary repository configuration was registered, after
\* after_scenario (returned or raised) its .repo file does not exist and a
\* clean-metadata command for dnf-extra-tests has been issued.
C3_RepoConfigGone ==
    (AfterDone /\ "temp_repo" \in last.applicable) =>
        /\ temp_repo[1]._filename \notin repofiles
        /\ \E i \in DOMAIN last.cmds : IsCleanFor(last.cmds[i], REPOID)

\* C4: backupfn, temp_resource and temp_repo are each None or a handle to
\* something that exists, and all three are None after after_scenario.
C4_FieldsNoneOrLive ==
    /\ backupfn \in {Unset, None} \/ backupfn \in DOMAIN backups
    /\ temp_resource = NoObj \/ temp_resource[1]._filename \in resfiles
    /\ temp_repo = NoObj \/ temp_repo[1]._filename \in repofiles
    /\ AfterDone => /\ backupfn \in {Unset, None}
                    /\ temp_resource = NoObj
                    /\ temp_repo = NoObj

\* C5: at most one configuration backup file exists, and when one exists
\* context.backupfn names it.
C5_AtMostOneBackup ==
    /\ Cardinality(DOMAIN backups) <= 1
    /\ DOMAIN backups # {} => backupfn \in DOMAIN backups

\* C6: when after_scenario runs with a backup recorded, the backup file is
\* deleted (once) and context.backupfn is cleared, on every outcome of the
\* copy-back.
C6_BackupDeletedOnce ==
    (AfterDone /\ "backup" \in last.applicable) =>
        /\ backupfn = None
        /\ last.backupfn \notin DOMAIN backups
        /\ Count(last.removed, <<ConfDir, last.backupfn>>) <= 1

\* C7: after_scenario does not raise because something it is to remove is
\* already absent.
C7_AbsenceSuppressed ==
    AfterDone => last.exc \notin {"OSError:ENOENT", "IOError:ENOENT"}

\* C8: nothing the harness created during the scenario exists once
\* after_scenario has returned.
C8_NoResidue ==
    (AfterDone /\ last.exc = None) => created = {}

\* The calls on obj among the first n of the log.
CallsOn(obj, n) == {i \in 1..n : apilog[i].obj = obj}

\* C9: after a successful remove() of a resource copy, a later remove() on
\* the handle (the copy not being created again in between) attempts no
\* deletion.
C9_RemovedOnce ==
    \A i, j \in CallsOn("copy", Len(apilog)) :
        (/\ i < j
         /\ apilog[i].op = "remove" /\ apilog[i].exc = None
         /\ apilog[j].op = "remove"
         /\ \A k \in CallsOn("copy", j) : i < k /\ k < j => apilog[k].op = "remove")
        => apilog[j].tried = << >>

\* Whether the handle holds nothing at call j: it was never created or
\* added with success, or a remove() since then deleted the file.
Holds(obj, j) ==
    \E i \in CallsOn(obj, j - 1) :
        /\ apilog[i].op \in {"create", "add"} /\ apilog[i].exc = None
        /\ \A k \in CallsOn(obj, j - 1) :
               (i < k /\ apilog[k].op = "remove") =>
                   (obj = "copy" \/ apilog[k].removed = << >>)

\* C10: remove() on a TempResourceCopy never created, or on a
\* TempRepoConfig never written or already removed, raises ValueError,
\* deletes nothing and runs no command.
C10_RemoveUnheld ==
    \A j \in DOMAIN apilog :
        (/\ apilog[j].op = "remove"
         /\ \/ apilog[j].obj = "copy" /\
               ~\E i \in CallsOn("copy", j - 1) :
                   apilog[i].op = "create" /\ apilog[i].exc = None
            \/ apilog[j].obj = "repo" /\ ~Holds("repo", j))
        => /\ apilog[j].exc = "ValueError"
           /\ apilog[j].tried = << >>
           /\ apilog[j].cmds = << >>

\* A copy removed before it was created, and a repository removed twice.
C10_Witness ==
    /\ \E j \in CallsOn("copy", Len(apilog)) :
           /\ apilog[j].op = "remove" /\ apilog[j].exc = "ValueError"
           /\ ~\E i \in CallsOn("copy", j - 1) : apilog[i].op = "create"
    /\ \E i, j \in CallsOn("repo", Len(apilog)) :
           /\ i < j
           /\ apilog[i].op = "remove" /\ apilog[i].removed # << >>
           /\ apilog[j].op = "remove" /\ apilog[j].exc = "ValueError"

\* The clean-metadata command of TempRepoConfig.remove(): quiet, every
\* repository disabled and then dnf-extra-tests enabled.
IsRepoClean(cmdline) ==
    /\ IsCleanFor(cmdline, REPOID)
    /\ \E i, k \in 2..Len(cmdline) :
           /\ i < k
           /\ cmdline[i] = <<"--disablerepo", "*">>
           /\ cmdline[k] = <<"--enablerepo", REPOID>>
           /\ \A m \in 2..Len(cmdline) :
                  m # k => cmdline[m][1] # "--enablerepo"

\* C11: remove() on an added repository runs the clean-metadata command
\* (all repositories disabled, only dnf-extra-tests enabled) first and
\* deletes the .repo file after it; the file is deleted and the handle reset
\* whether the command succeeds or fails.
C11_CleanThenDelete ==
    \A j \in DOMAIN apilog :
        (apilog[j].obj = "repo" /\ apilog[j].op = "remove" /\ Holds("repo", j))
        => /\ Len(apilog[j].trace) = 2
           /\ apilog[j].trace[1][1] = "run"
           /\ IsRepoClean(apilog[j].trace[1][2])
           /\ apilog[j].trace[2] = <<"os.remove", apilog[j].pre>>
           /\ apilog[j].removed = <<apilog[j].pre>>
           /\ apilog[j].post = NoPath
           /\ j = Len(apilog) => apilog[j].pre \notin repofiles

\* An added repository removed while the command fails, and one removed
\* while it succeeds.
C11_Witness ==
    \E i, j \in CallsOn("repo", Len(apilog)) :
        /\ apilog[i].op = "remove" /\ Holds("repo", i)
        /\ apilog[i].exc = "CalledProcessError" /\ apilog[i].post = NoPath
        /\ apilog[j].op = "remove" /\ Holds("repo", j)
        /\ apilog[j].exc = None /\ apilog[j].removed # << >>

\* C12: a before_scenario that completes leaves config_option,
\* releasever_option, installroot_option, temp_resource and temp_repo None,
\* context.backupfn naming a file that did not exist before and holds what
\* the live configuration held at entry, and the live configuration existing
\* and empty, whatever the context held before.
C12_BeforeScenarioResets ==
    [][(pc = "idle" /\ pc' = "body") =>
          /\ config_option' = None
          /\ releasever_option' = None
          /\ installroot_option' = None
          /\ temp_resource' = NoObj
          /\ temp_repo' = NoObj
          /\ backupfn' \notin DOMAIN backups
          /\ backupfn' \in DOMAIN backups'
          /\ config # NoFile
          /\ backups'[backupfn'] = config[1]
          /\ config' = << << >> >>]_vars

\* before_scenario has completed in a context that held the handle of a
\* repository of the scenario before (its .repo file is still there).
C12_Witness ==
    /\ pc = "body" /\ last.op = "before_scenario" /\ last.exc = None
    /\ repofiles # {}
    /\ temp_repo = NoObj
    /\ backupfn \in DOMAIN backups
    /\ config = << << >> >>

\* C13: when after_scenario returns normally, the backup file, the resource
\* copy's file and the .repo file registered in the context do not exist,
\* and neither does the install root when installroot_option is set.
C13_RegisteredGone ==
    (AfterDone /\ last.exc = None) =>
        /\ "backup" \in last.applicable => last.backupfn \notin DOMAIN backups
        /\ temp_resource # NoObj => temp_resource[1]._filename \notin resfiles
        /\ "temp_repo" \in last.applicable =>
               /\ temp_repo[1]._filename = NoPath
               /\ \E i \in DOMAIN last.removed : last.removed[i][1] = ReposDir
               /\ \A i \in DOMAIN last.tried : ~Exists(World, last.tried[i])
        /\ Truthy(installroot_option) => installroot_option \notin dirs

\* after_scenario has returned normally from a scenario with a backup, a
\* resource copy, a repository and an install root.
C13_Witness ==
    /\ AfterDone /\ last.exc = None
    /\ last.applicable = {"backup", "temp_resource", "temp_repo", "installroot"}
    /\ Len(last.removed) = 3

\* C14: makedirs on a path with missing parents creates them and the
\* directory; on an existing directory it succeeds with exist_ok and fails
\* without; on an existing non-directory it fails either way; any other
\* error of the creation is raised.
C14_Makedirs ==
    fn.op = "makedirs" =>
        LET t == fn.arg.t
            name == fn.arg.name
            blocked == \E p \in Prefixes(name) : p \in t.files
        IN  /\ (~PathExists(t, name) /\ ~blocked /\ ~fn.arg.denied) =>
                   /\ fn.res.exc = None
                   /\ fn.res.t.dirs = t.dirs \cup Prefixes(name)
                   /\ fn.res.t.files = t.files
            /\ name \in t.dirs =>
                   /\ fn.res.exc = None <=> fn.arg.exist_ok
                   /\ fn.res.t = t
            /\ name \in t.files => fn.res.exc # None /\ fn.res.t = t
            /\ (~PathExists(t, name) /\ blocked) =>
                   fn.res.exc = "OSError:ENOTDIR" /\ fn.res.t = t
            /\ (~PathExists(t, name) /\ ~blocked /\ fn.arg.denied) =>
                   fn.res.exc = "OSError:EACCES" /\ fn.res.t = t

\* makedirs has created a directory and its two missing parents.
C14_Witness ==
    /\ fn.op = "makedirs"
    /\ fn.arg.t.dirs = {} /\ Len(fn.arg.name) = 3
    /\ fn.res.exc = None
    /\ fn.arg.name \in fn.res.t.dirs

\* The option opt when it is set, as a list of one or no element.
Given(set, opt) == IF set THEN <<opt>> ELSE << >>

\* C15: the argument vector of run_dnf is 'dnf', then the options that are
\* set in the order --assumeyes, --config, --disablerepo, --enablerepo,
\* --installroot, --quiet, --releasever, then the caller's args; an option
\* that is None, empty or False is not in it; the caller's args is unchanged.
C15_ArgumentVector ==
    fn.op = "run_dnf" =>
        /\ fn.res.cmdline =
               <<"dnf">>
               \o Given(fn.arg.assumeyes, <<"--assumeyes">>)
               \o Given(fn.arg.configfn \notin {None, ""}, <<"--config", fn.arg.configfn>>)
               \o Given(fn.arg.disablerepo \notin {None, ""},
                        <<"--disablerepo", fn.arg.disablerepo>>)
               \o Given(fn.arg.enablerepo \notin {None, ""},
                        <<"--enablerepo", fn.arg.enablerepo>>)
               \o Given(fn.arg.root \notin {None, ""}, <<"--installroot", fn.arg.root>>)
               \o Given(fn.arg.quiet, <<"--quiet">>)
               \o Given(fn.arg.releasever \notin {None, ""},
                        <<"--releasever", fn.arg.releasever>>)
               \o fn.arg.args
        /\ fn.res.args = fn.arg.args

\* run_dnf called with every option set, and with none.
C15_Witness ==
    /\ fn.op = "run_dnf"
    /\ Len(fn.arg.args) = 2
    /\ Len(fn.res.cmdline) = 10
    /\ fn.res.cmdline[2] = <<"--assumeyes">>
    /\ fn.res.cmdline[8] = <<"--releasever", "v">>

\* C16: run_dnf returns the captured output only when the executable exits
\* with 0; it raises OSError when the executable cannot be started and
\* CalledProcessError, carrying the exit code, when it exits with another.
C16_RunDnfOutcome ==
    fn.op = "run_dnf" =>
        /\ fn.res.exc = None <=> (fn.arg.proc.started /\ fn.arg.proc.code = 0)
        /\ fn.res.exc = None => fn.res.ret = <<fn.arg.proc.out>>
        /\ fn.res.exc # None => fn.res.ret = NoObj
        /\ ~fn.arg.proc.started => fn.res.exc = "OSError:exec"
        /\ (fn.arg.proc.started /\ fn.arg.proc.code # 0) =>
               /\ fn.res.exc = "CalledProcessError"
               /\ fn.res.returncode = <<fn.arg.proc.code>>

\* The executable printed something and exited with 2.
C16_Witness ==
    /\ fn.op = "run_dnf"
    /\ fn.arg.proc.started /\ fn.arg.proc.code = 2 /\ fn.arg.proc.out # << >>
    /\ fn.res.exc = "CalledProcessError"
    /\ fn.res.returncode = <<2>>

\* The value of the last row of rows that names option, else old.
LastValue(rows, option, old) ==
    LET at == {k \in DOMAIN rows : rows[k][1] = option}
    IN  IF at = {} THEN old
        ELSE rows[CHOOSE k \in at : \A m \in at : m <= k][2]

\* C17: the command-line step raises when there is no table, when the
\* headings are not (Option, Value) or when a row names an option other than
\* --config, --releasever and --installroot; otherwise each of the three
\* fields has the value of the last row naming its option, or its old value
\* when no row does.
C17_CliOptions ==
    fn.op = "_configure_dnf_cli" =>
        LET table == fn.arg.table
            bad == IF table = NoObj THEN TRUE
                   ELSE IF table[1].headings # <<"Option", "Value">> THEN TRUE
                   ELSE \E k \in DOMAIN table[1].rows :
                           table[1].rows[k][1] \notin
                               {"--config", "--releasever", "--installroot"}
        IN  /\ bad <=> fn.res.exc # None
            /\ ~bad =>
                  /\ fn.res.config_option =
                         LastValue(table[1].rows, "--config", fn.arg.config_option)
                  /\ fn.res.releasever_option =
                         LastValue(table[1].rows, "--releasever",
                                   fn.arg.releasever_option)
                  /\ fn.res.installroot_option =
                         LastValue(table[1].rows, "--installroot",
                                   fn.arg.installroot_option)

\* Two rows for --config: the second one's value is set, the other fields
\* keep what they held.
C17_Witness ==
    /\ fn.op = "_configure_dnf_cli"
    /\ fn.arg.table # NoObj
    /\ fn.arg.table[1].rows = << <<"--config", "c1">>, <<"--config", "c2">> >>
    /\ fn.arg.releasever_option = "20"
    /\ fn.res.exc = None
    /\ fn.res.config_option = "c2"
    /\ fn.res.releasever_option = "20"

\* C18 as claimed: in every translation of a root description 'host' and
\* 'system' give no install root, 'guest' and 'custom install' give the
\* configured install root and fail when none is configured, and any other
\* description is rejected as not supported.
C18_RootTranslation ==
    fn.op \in {"translate_root", "_test_management"} =>
        /\ fn.arg.description \in {"host", "system"} =>
               fn.res.exc = None /\ fn.res.ret = <<None>>
        /\ fn.arg.description \in {"guest", "custom install"} =>
               IF fn.arg.installroot_option \in {None, ""}
                 THEN fn.res.exc = "ValueError"
                 ELSE fn.res.exc = None /\ fn.res.ret = <<fn.arg.installroot_option>>
        /\ fn.arg.description \notin {"host", "system", "guest", "custom install"} =>
               fn.res.exc = "NotImplementedError"

\* The words a translation knows for "no install root" and for "the
\* configured install root".
RootWords(op) ==
    IF op = "translate_root" THEN [none |-> "host", root |-> "guest"]
    ELSE [none |-> "system", root |-> "custom install"]

\* C18, amended: translate_root (verification and import steps) knows
\* 'host' and 'guest', the management step knows 'system' and 'custom
\* install'; the first word gives no install root, the second the configured
\* install root and fails when none is configured; each rejects every other
\* description, the other translation's words included.
C18_RootTranslationPerStep ==
    fn.op \in {"translate_root", "_test_management"} =>
        /\ fn.arg.description = RootWords(fn.op).none =>
               fn.res.exc = None /\ fn.res.ret = <<None>>
        /\ fn.arg.description = RootWords(fn.op).root =>
               IF fn.arg.installroot_option \in {None, ""}
                 THEN fn.res.exc = "ValueError"
                 ELSE fn.res.exc = None /\ fn.res.ret = <<fn.arg.installroot_option>>
        /\ fn.arg.description \notin {RootWords(fn.op).none, RootWords(fn.op).root} =>
               fn.res.exc = "NotImplementedError"

\* translate_root is given 'guest' while no install root is configured.
C18_Witness ==
    /\ fn.op = "translate_root"
    /\ fn.arg.description = "guest"
    /\ fn.arg.installroot_option = ""
    /\ fn.res.exc = "ValueError"

\* C19: _test_repo_equals_dir passes exactly when the lines the query
\* printed and the identifiers loaded from the directory are as many and
\* equal one by one in that order; a failed query and a failed load raise an
\* error that is neither a pass nor an AssertionError.
C19_OrderedComparison ==
    fn.op = "_test_repo_equals_dir" =>
        IF fn.arg.query.exc # None
          THEN fn.res.exc \in {"ValueError", "OSError:exec"}
        ELSE IF ~fn.arg.load
          THEN fn.res.exc = "ValueError"
        ELSE LET lines == splitlines(fn.arg.query.output)
                 same == /\ Len(lines) = Len(fn.arg.nevras)
                         /\ \A k \in DOMAIN lines : lines[k] = fn.arg.nevras[k]
             IN  /\ fn.res.exc = None <=> same
                 /\ ~same => fn.res.exc = "AssertionError"

\* The query printed the two packages of the directory in the other order.
C19_Witness ==
    /\ fn.op = "_test_repo_equals_dir"
    /\ fn.arg.query.exc = None /\ fn.arg.load
    /\ fn.arg.query.output = <<"bar", "\n", "foo">>
    /\ fn.arg.nevras = << <<"foo">>, <<"bar">> >>
    /\ fn.res.exc = "AssertionError"

\* What the command of a step wrote into the host's directory and what into
\* the guest's (without install root there is no guest: all is the host's).
WroteToHost(a) ==
    IF a.installroot_option = None THEN a.new.host \cup a.new.guest ELSE a.new.host
WroteToGuest(a) ==
    IF a.installroot_option = None THEN {} ELSE a.new.guest

\* The verdict the entries written by the command call for.
VerdictFromNew(a) ==
    IF a.destination = "locally" THEN WroteToHost(a) # {}
    ELSE WroteToGuest(a) # {} /\ WroteToHost(a) = {}

\* A call of one of the three steps whose command (and preparation of the
\* install root) succeeded, for a destination the steps know.
Judged(op) ==
    /\ fn.op = op
    /\ fn.arg.destination \in {"locally", "in the guest"}
    /\ fn.arg.res.exc = None
    /\ fn.arg.installroot_option = None \/ fn.arg.prep[1]

\* C20: the logging, caching and tracking steps pass exactly when the
\* entries written by the command call for it ('locally': some in the
\* host's directory; 'in the guest': some in the guest's and none in the
\* host's), whatever the two directories held before.
C20_VerdictFromNewEntries ==
    \A op \in {"_test_logging", "_test_caching", "_test_tracking"} :
        Judged(op) => (fn.res.exc = None <=> VerdictFromNew(fn.arg))

\* A step called on its own with a phrase it does not recognize.
Unrecognized ==
    \/ /\ fn.op \in {"_test_logging", "_test_caching", "_test_tracking"}
       /\ fn.arg.destination \notin {"locally", "in the guest"}
    \/ /\ fn.op = "_test_management_step"
       /\ fn.arg.description \notin {"system", "custom install"}

\* C21: a step given a destination or a root description it does not
\* recognize raises the unsupported-input error before it has deleted or
\* written any file and before it has run any command.
C21_FailFast ==
    Unrecognized =>
        /\ fn.res.exc = "NotImplementedError"
        /\ fn.res.cmds = << >>
        /\ IF fn.op = "_test_management_step" THEN fn.res.dirs = dirs
                                              ELSE fn.res.d = fn.arg.d

\* A step called on its own that refers to the guest while no install root
\* is configured.
GuestWithoutRoot ==
    /\ fn.op # "none"
    /\ fn.op \notin {"makedirs", "run_dnf", "_configure_dnf_cli", "_test_repo_equals_dir"}
    /\ fn.arg.installroot_option \in {None, ""}
    /\ IF fn.op \in {"_test_logging", "_test_caching", "_test_tracking"}
         THEN fn.arg.destination = "in the guest"
       ELSE IF fn.op = "translate_root" THEN fn.arg.description = "guest"
       ELSE fn.arg.description = "custom install"

\* C22: a step that refers to the guest while no install root is configured
\* ends with the state-precondition error (ValueError), never with a pass
\* and never with an assertion failure.
C22_GuestNeedsRoot ==
    GuestWithoutRoot => fn.res.exc = "ValueError"

\* The keys of a repository configuration in the order of their lines.
RepoKeys == <<"baseurl", "metalink", "mirrorlist", "gpgcheck", "gpgkey">>

\* The line repo_config is to emit for the k-th key, << >> when none.
RepoLine(a, k) ==
    IF RepoKeys[k] = "gpgcheck"
      THEN IF a.gpgcheck = None THEN << >>
           ELSE <<"gpgcheck", IF a.gpgcheck = "True" THEN "true" ELSE "false">>
    ELSE IF a[RepoKeys[k]] \in {None, ""} THEN << >>
    ELSE <<RepoKeys[k], a[RepoKeys[k]]>>

\* C23: repo_config emits [dnf-extra-tests], metadata_expire=0 and then, in
\* the order baseurl, metalink, mirrorlist, gpgcheck, gpgkey, one line for
\* each field that is given: none for a URL that is None or empty,
\* gpgcheck=true or gpgcheck=false whenever gpgcheck is not None.
C23_RepoConfigLines ==
    fn.op = "repo_config" =>
        LET given == {k \in DOMAIN RepoKeys : RepoLine(fn.arg, k) # << >>}
        IN  /\ Len(fn.res) = 2 + Cardinality(given)
            /\ fn.res[1] = <<"[dnf-extra-tests]">>
            /\ fn.res[2] = <<"metadata_expire", "0">>
            /\ \A k \in given :
                   fn.res[2 + Cardinality({m \in given : m <= k})] = RepoLine(fn.arg, k)

\* gpgcheck is False, between a mirrorlist and a gpgkey; no base URL.
C23_Witness ==
    /\ fn.op = "repo_config"
    /\ fn.arg.baseurl = "" /\ fn.arg.metalink = None
    /\ fn.arg.gpgcheck = "False"
    /\ fn.res = << <<"[dnf-extra-tests]">>, <<"metadata_expire", "0">>,
                   <<"mirrorlist", "v">>, <<"gpgcheck", "false">>,
                   <<"gpgkey", "v">> >>

\* The managers of the with statement of a step called on its own whose
\* __enter__ succeeded, outermost first.
Entered ==
    IF fn.op = "_test_plugins_conf"
      THEN (IF fn.arg.copied1 THEN <<"dnf-extra-tests.py">> ELSE << >>)
           \o (IF fn.arg.copied1 /\ fn.arg.copied2
               THEN <<"dnf-extra-tests.conf">> ELSE << >>)
    ELSE IF fn.arg.installroot_option = None \/ fn.arg.prep[1]
      THEN <<REPOID>>
    ELSE << >>

\* The places of event e in the history of the with statement.
Places(e) == {k \in DOMAIN fn.res.ctxlog : fn.res.ctxlog[k] = e}

\* C24: when a TempResourceCopy or a TempRepoConfig is used as a context
\* manager, leaving the block, normally or through an exception, calls its
\* remove() exactly once; an exception raised in the block is not
\* suppressed; and when the __enter__ of a later manager of the same with
\* statement fails, the earlier ones are still removed (and the failing one
\* is not).
C24_ContextManagers ==
    fn.op \in {"_test_plugins_conf", "_test_reposdir"} =>
        LET log == fn.res.ctxlog
            blocks == {k \in DOMAIN log : log[k][1] = "block"}
        IN  /\ \A m \in DOMAIN Entered :
                   /\ Cardinality(Places(<<"__exit__", Entered[m]>>)) = 1
                   /\ \A x \in Places(<<"__exit__", Entered[m]>>) :
                          /\ \A b \in blocks : b < x
                          /\ \A n \in Places(<<"__enter__", Entered[m]>>) : n < x
            /\ \A k \in DOMAIN log :
                   log[k][1] = "__exit__" =>
                       \E m \in DOMAIN Entered : log[k][2] = Entered[m]
            /\ \A b \in blocks : log[b][2] # None => fn.res.exc # None
            /\ (fn.op = "_test_plugins_conf" /\ fn.arg.copied1 /\ ~fn.arg.copied2) =>
                   /\ blocks = {}
                   /\ fn.res.exc # None
                   /\ fn.res.files = {}

\* The block of two managers raised: both were removed, the inner one first.
C24_Witness ==
    /\ fn.op = "_test_plugins_conf"
    /\ fn.res.exc = "AssertionError"
    /\ fn.res.ctxlog = << <<"__enter__", "dnf-extra-tests.py">>,
                          <<"__enter__", "dnf-extra-tests.conf">>,
                          <<"block", "AssertionError">>,
                          <<"__exit__", "dnf-extra-tests.conf">>,
                          <<"__exit__", "dnf-extra-tests.py">> >>
    /\ fn.res.files = {}

\* A call of one of the two steps in which the scratch tree was made.
ScratchMade ==
    IF fn.op = "_test_releasever" THEN KnownExpectation(fn.arg.expected)
    ELSE /\ fn.op = "_test_repository"
         /\ fn.arg.installroot_option = None \/ fn.arg.prep[1]

\* C25: the temporary directory of the $RELEASEVER step and the repository
\* copy of the "repository available" step do not exist when the step ends,
\* whether it passed, failed its assertion or raised from an operation after
\* the tree was made (the preparation of the install root included).
C25_ScratchReleased ==
    ScratchMade => fn.arg.path \notin fn.res.dirs

\* C26: the tracking step leaves the host's persistent directory as it
\* found it, with the content it had at entry or absent if it was absent,
\* and no temporary backup directory, on every exit (pass, assertion
\* failure, failure of the group-install command); an unsupported
\* destination is rejected before anything is run.
C26_HostPersistRestored ==
    fn.op = "_test_tracking" =>
        /\ fn.res.d.host = fn.arg.d.host
        /\ ~fn.res.backupdn
        /\ fn.res.backup = NoFile
        /\ fn.arg.destination \notin {"locally", "in the guest"} =>
               fn.res.exc = "NotImplementedError" /\ fn.res.cmds = << >>

\* The command wrote into the host's directory, which held an entry, and
\* failed.
C26_Witness ==
    /\ fn.op = "_test_tracking"
    /\ fn.arg.destination = "locally"
    /\ fn.arg.d.host # NoFile /\ fn.arg.d.host[1] # {}
    /\ fn.arg.new.host # {}
    /\ fn.res.exc = "CalledProcessError"
    /\ fn.res.d.host = fn.arg.d.host

\* The .repo files and the resource copies the call has written.
NewRepoFiles == {p \in fn.res.created : p[2] # "" /\ p \in fn.res.repofiles}
NewCopies == {p \in fn.res.created : p[2] # "" /\ p \in fn.res.resfiles}

\* C27: a call of _configure_baseurl made while context.temp_repo (resp.
\* context.temp_resource) is set fails, writes no .repo file (resp. no
\* resource copy) and leaves the registered handle in place; every .repo
\* file and every resource copy the step writes is the file of the handle
\* it has recorded in the context, also when the step then fails, and the
\* after_scenario that follows calls os.remove on it.
C27_OneRepoOneCopy ==
    fn.op = "_configure_baseurl" =>
        /\ fn.arg.temp_repo # NoObj =>
               /\ fn.res.exc # None
               /\ NewRepoFiles = {}
               /\ fn.res.temp_repo = fn.arg.temp_repo
        /\ fn.arg.temp_resource # NoObj =>
               /\ fn.res.exc # None
               /\ NewCopies = {}
               /\ fn.res.temp_resource = fn.arg.temp_resource
        /\ \A p \in NewRepoFiles :
               fn.res.temp_repo # NoObj /\ fn.res.temp_repo[1]._filename = p
        /\ \A p \in NewCopies :
               fn.res.temp_resource # NoObj /\ fn.res.temp_resource[1]._filename = p
        /\ Cardinality(NewRepoFiles) <= 1
        /\ Cardinality(NewCopies) <= 1
        /\ \A p \in NewRepoFiles \cup NewCopies :
               \E i \in DOMAIN fn.res.tried : fn.res.tried[i] = p

\* A call for a mirrorlist while a repository is registered: the copy is
\* written and recorded, the step fails, no .repo file is written.
C27_Witness ==
    /\ fn.op = "_configure_baseurl"
    /\ fn.arg.temp_repo # NoObj /\ fn.arg.temp_resource = NoObj
    /\ fn.arg.repoid = REPOID /\ fn.arg.urltype = "mirrorlist"
    /\ fn.res.exc = "NotImplementedError"
    /\ NewCopies = {<<ResDir, "mirrorlist.txt">>}
    /\ fn.res.temp_resource # NoObj
    /\ fn.res.temp_repo = fn.arg.temp_repo
    /\ fn.res.repofiles = {<<ReposDir, NameTable[1]>>}
    /\ fn.res.tried = <<<<ConfDir, NameTable[1]>>, <<ResDir, "mirrorlist.txt">>,
                         <<ReposDir, NameTable[1]>>>>

\* The index of the first row of rows that names an unrecognized option,
\* 0 when there is none.
FirstBad(rows) ==
    LET bad == {k \in DOMAIN rows : rows[k][1] \notin
                   {"--config", "--releasever", "--installroot"}}
    IN  IF bad = {} THEN 0 ELSE CHOOSE k \in bad : \A m \in bad : k <= m

\* C28: when the command-line step fails on an unrecognized option, the
\* overrides of the rows before that row are stored, they are still set
\* after the after_scenario that follows, and the next before_scenario
\* resets them; when it fails because the table is missing or its headings
\* are wrong, the three override fields are as they were.
C28_CliNotAtomic ==
    fn.op = "_configure_dnf_cli" =>
        /\ (fn.arg.table = NoObj \/ fn.arg.table[1].headings # <<"Option", "Value">>) =>
               /\ fn.res.exc # None
               /\ Overrides(fn.res) = Overrides(fn.arg)
        /\ (/\ fn.arg.table # NoObj
            /\ fn.arg.table[1].headings = <<"Option", "Value">>
            /\ FirstBad(fn.arg.table[1].rows) # 0) =>
               LET rows == fn.arg.table[1].rows
                   before == SubSeq(rows, 1, FirstBad(rows) - 1)
               IN  /\ fn.res.exc = "NotImplementedError"
                   /\ fn.res.config_option =
                          LastValue(before, "--config", fn.arg.config_option)
                   /\ fn.res.releasever_option =
                          LastValue(before, "--releasever", fn.arg.releasever_option)
                   /\ fn.res.installroot_option =
                          LastValue(before, "--installroot",
                                    fn.arg.installroot_option)
                   /\ fn.res.teardown = Overrides(fn.res)
                   /\ fn.res.next = [config_option |-> None,
                                     releasever_option |-> None,
                                     installroot_option |-> None]

\* A --releasever row followed by an unrecognized option: the step fails
\* and the release version is stored, until the next scenario begins.
C28_Witness ==
    /\ fn.op = "_configure_dnf_cli"
    /\ fn.arg.table # NoObj
    /\ fn.arg.table[1].headings = <<"Option", "Value">>
    /\ fn.arg.table[1].rows = << <<"--releasever", "21">>, <<"--bogus", "x">> >>
    /\ fn.arg.releasever_option = None
    /\ fn.res.exc = "NotImplementedError"
    /\ fn.res.releasever_option = "21"
    /\ fn.res.teardown.releasever_option = "21"
    /\ fn.res.next.releasever_option = None

====
